---- MODULE Spec2Model ----
(***************************************************************************)
(* tmux-tui: the bookmark store (storage/store.ts), the bookmark resolver  *)
(* (cli/resolver.ts), the tmux adapter, the jump command and the picker    *)
(* as state machines.                                                      *)
(*                                                                         *)
(* Spec         several independent processes run BookmarkStore operations *)
(*              on one path; every await of a mutating call is a step.     *)
(* SpecSeq      one process reads, adds, removes and moves, one by one.    *)
(* SpecEdit     one process adds, removes, replaces, renames and touches   *)
(*              while the clock advances.                                  *)
(* SpecIds      one process edits while a second one adds.                 *)
(* SpecFiles    one process runs every operation on a path that holds      *)
(*              what an earlier run left (missing, damaged, any version).  *)
(* SpecFaults   one process writes while writes and renames fail and the   *)
(*              process is killed midway; a second process reads.          *)
(* SpecRapid    two calls of one process add at the same time.             *)
(* SpecResolve  resolveBookmark runs against a tmux server whose sessions, *)
(*              windows and panes change between the calls.                *)
(* SpecJump     cmdJump looks a bookmark up, resolves it, records the use  *)
(*              and switches, while sessions are created and killed.       *)
(* SpecSnapshot getState runs its three list commands while sessions and   *)
(*              windows are created and killed.                            *)
(* SpecRace     resolveBookmark runs query by query while the server       *)
(*              changes between its queries.                               *)
(* SpecPicker   runPicker reads keys until one of them ends the loop.      *)
(***************************************************************************)
EXTENDS Integers, Sequences, FiniteSets, TLC

(***************************************************************************)
(* Bounds of the model.                                                    *)
(***************************************************************************)
\* how many ids generateId() hands out in one behaviour
MaxIds == 3
\* the last second the clock reaches
MaxClock == 1
\* how many windows tmux creates in one behaviour
MaxWindows == 3
\* how many bookmarks are added before the jumps
MaxMarks == 2

\* the processes that use the store; each has its own process.pid
Procs == {"p1", "p2"}
\* a second call that runs in process p1 while the first has not returned
Sibling == "p1b"
\* whoever has a store call running
Callers == Procs \cup {Sibling}
\* process.pid of the process the call runs in
Pid(p) == IF p = Sibling THEN "p1" ELSE p

CURRENT_SCHEMA_VERSION == 1

(***************************************************************************)
(* JavaScript values.  An optional property is <<>> (undefined) or <<v>>.  *)
(***************************************************************************)
Undefined == <<>>
Def(v) == <<v>>
\* the truthiness test `if (s)` on an optional string
Truthy(s) == s # Undefined /\ s[1] # ""

TargetKeys == {"sessionId", "windowId", "paneId"}
FallbackKeys == {"sessionName", "windowIndex", "windowName", "paneIndex"}
MetaOptKeys == {"cwd", "host"}

NoTarget == [sessionId |-> Undefined, windowId |-> Undefined, paneId |-> Undefined]
NoFallback == [sessionName |-> Undefined, windowIndex |-> Undefined,
               windowName |-> Undefined, paneIndex |-> Undefined]

\* what the command layer passes to add / replace; the tmux ids $n, @n and %n
\* are the number n
AddInputs ==
  { [label |-> "first", kind |-> "session",
     target |-> [NoTarget EXCEPT !.sessionId = Def(1)],
     fallback |-> [NoFallback EXCEPT !.sessionName = Def("work")],
     cwd |-> Undefined],
    [label |-> "second", kind |-> "window",
     target |-> [NoTarget EXCEPT !.sessionId = Def(1), !.windowId = Def(1)],
     fallback |-> [NoFallback EXCEPT !.sessionName = Def("work"),
                                     !.windowIndex = Def(0), !.windowName = Def("")],
     cwd |-> Def("/src")] }

Labels == {in.label : in \in AddInputs}
Ids == 1 .. MaxIds
\* slot arguments: in range, zero, negative and past the end
Slots == (-1) .. (MaxIds + 1)

\* process.env.HOSTNAME ?? process.env.HOST: the processes run on one machine
EnvHost(p) == Def("host")

VARIABLES
  file,        \* the content at this.path
  tmp,         \* the content at each temporary path
  pc,          \* where each process is in its store call
  op,          \* the call each process runs, with its arguments
  data,        \* the local `data` of the call
  seen,        \* the content of this.path when the call read it (history)
  ret,         \* what the call returned
  nextId,      \* how many ids generateId() has handed out
  issued,      \* the bookmarks built with an id of generateId(), in order (history)
  clock,       \* Date.now() in seconds
  lastWritten, \* the envelope handed to the write() whose rename came last (history)
  lastRenamer, \* the process whose rename came last (history)
  wrote,       \* per process: its call has renamed its temporary file into place (history)
  overlap,     \* per process: who had read and not yet renamed when it renamed (history)
  sawPartial   \* some read met an incomplete file (history)

storeVars == <<file, tmp, pc, op, data, seen, ret, nextId, issued, clock,
               lastWritten, lastRenamer, wrote, overlap, sawPartial>>

VARIABLES
  sessions,     \* the sessions of the tmux server
  windows,      \* its windows
  panes,        \* its panes: one in every window
  nextSession,  \* how many session ids $n tmux has handed out
  nextWindow,   \* how many window ids @n, and pane ids %n, tmux has handed out
  bm,           \* the bookmark that is resolved
  result,       \* what resolveBookmark returned for bm on the server as it is now
  queried,      \* the adapter queries of that call, in order (history)
  resolvedById  \* an earlier call resolved bm with method "id" (history)

tmuxVars == <<sessions, windows, panes, nextSession, nextWindow>>
resolverVars == <<bm, result, queried, resolvedById>>

VARIABLES
  jump,      \* cmdJump: where it is, with its locals bookmark and resolution
  view,      \* the persisted view state {lastViewedId, prevViewedId}
  switched,  \* the tmux commands the last switchTo has run, in order
  before     \* meta.lastUsed of the bookmark and the view state when the jump began (history)

jumpVars == <<jump, view, switched, before>>

VARIABLES
  snap,      \* adapter.getState(): the lists its three commands have returned so far
  rs,        \* resolveBookmark, query by query: where it is, with its locals
  cands      \* what resolveBookmark yields on each server state met during that call (history)

adapterVars == <<snap, rs, cands>>

VARIABLES
  pk         \* runPicker: its locals (items, selectedIndex, running, result, windowMode, ...)

pickerVars == <<pk>>

vars == <<storeVars, tmuxVars, resolverVars, jumpVars, adapterVars, pickerVars>>

(***************************************************************************)
(* Files: absent, or a JSON text.  The text of an envelope is its version  *)
(* and items; a text still being written is a prefix of it, not closed.    *)
(***************************************************************************)
Absent == [exists |-> FALSE]

\* JSON.stringify of an object: a property whose value is undefined is left out
Keep(o, opt) ==
  [k \in {k \in DOMAIN o : k \notin opt \/ o[k] # Undefined} |->
     IF k \in opt THEN o[k][1] ELSE o[k]]

\* JSON.parse of an object: a property that is not there reads as undefined
Obj(t, keys, opt) ==
  [k \in keys |-> IF k \in opt
                    THEN (IF k \in DOMAIN t THEN Def(t[k]) ELSE Undefined)
                    ELSE t[k]]

\* mutant: the text of a bookmark leaves meta.cwd out
StringifyBookmarkNoCwd(b) ==
  [id |-> b.id, label |-> b.label, kind |-> b.kind,
   target |-> Keep(b.target, TargetKeys),
   fallback |-> Keep(b.fallback, FallbackKeys),
   meta |-> Keep([b.meta EXCEPT !.cwd = Undefined], MetaOptKeys)]

StringifyBookmark(b) ==
  [id |-> b.id, label |-> b.label, kind |-> b.kind,
   target |-> Keep(b.target, TargetKeys),
   fallback |-> Keep(b.fallback, FallbackKeys),
   meta |-> Keep(b.meta, MetaOptKeys)]

ParseBookmark(t) ==
  [id |-> t.id, label |-> t.label, kind |-> t.kind,
   target |-> Obj(t.target, TargetKeys, TargetKeys),
   fallback |-> Obj(t.fallback, FallbackKeys, FallbackKeys),
   meta |-> Obj(t.meta, MetaOptKeys \cup {"lastUsed", "createdAt"}, MetaOptKeys)]

JSONstringify(d) ==
  [exists |-> TRUE, complete |-> TRUE, version |-> d.version,
   items |-> [i \in 1 .. Len(d.items) |-> StringifyBookmark(d.items[i])]]

\* some strict prefix of the text f: what the file holds while f is being written
Partial(f) == [f EXCEPT !.complete = FALSE]

\* the text of the JSON value null
NullText == [exists |-> TRUE, complete |-> TRUE, null |-> TRUE]
\* the text of a JSON object that has neither version nor items, as {} has
ObjectText == [exists |-> TRUE, complete |-> TRUE]

\* file.json() of a complete text of an object: the object with the properties
\* the text has
JSONparse(f) ==
  [k \in DOMAIN f \ {"exists", "complete"} |->
     IF k = "items"
       THEN [i \in 1 .. Len(f.items) |-> ParseBookmark(f.items[i])]
       ELSE f[k]]

EmptyEnvelope == [version |-> CURRENT_SCHEMA_VERSION, items |-> <<>>]

\* mutant: an envelope of another version is taken for an empty one
migrateFresh(d) ==
  IF "version" \in DOMAIN d /\ d.version = CURRENT_SCHEMA_VERSION
    THEN d
    ELSE EmptyEnvelope

\* a property that is not there reads as undefined, which is not the current
\* version; { ...data, version } has the properties of data and the version
migrate(d) ==
  IF "version" \in DOMAIN d /\ d.version = CURRENT_SCHEMA_VERSION
    THEN d
    ELSE [k \in DOMAIN d \cup {"version"} |->
            IF k = "version" THEN CURRENT_SCHEMA_VERSION ELSE d[k]]

\* file.json() gives null: migrate reads data.version of null, a TypeError, which
\* read throws on since it is no SyntaxError
Unreadable(f) == f.exists /\ f.complete /\ "null" \in DOMAIN f

\* mutant: a missing file reads as an envelope that is not empty
readSample(f) ==
  IF ~f.exists THEN [EmptyEnvelope EXCEPT !.items = <<[id |-> 1, label |-> "first"]>>]
  ELSE IF ~f.complete THEN EmptyEnvelope
  ELSE migrate(JSONparse(f))

\* BookmarkStore.read on the content f of this.path, when it returns
read(f) ==
  IF ~f.exists THEN EmptyEnvelope
  ELSE IF ~f.complete THEN EmptyEnvelope   \* SyntaxError: "starting fresh"
  ELSE migrate(JSONparse(f))

\* mutant: the temporary path does not name the process
TempPathShared(p) == <<"bookmarks.json.tmp", "any">>

\* `${this.path}.tmp.${process.pid}`
TempPath(p) == <<"bookmarks.json.tmp", Pid(p)>>
TempPaths == {TempPath(p) : p \in Procs}

\* read returns an object without items
NoItems(f) == ~Unreadable(f) /\ "items" \notin DOMAIN read(f)
\* a call that reads a property of data.items raises a TypeError
Raises(f) == Unreadable(f) \/ NoItems(f)
\* a call that tests index < 0 before it reads data.items.length
RaisesAt(f, slot) == Unreadable(f) \/ (NoItems(f) /\ slot >= 1)

(***************************************************************************)
(* JavaScript arrays, 0-based.                                             *)
(***************************************************************************)
At(a, i) == a[i + 1]
\* mutant: a.unshift(x)
unshift(a, x) == <<x>> \o a
push(a, x) == Append(a, x)
\* mutant: a.splice(i), which removes everything from i on
spliceRest(a, i) == SubSeq(a, 1, i)
\* a.splice(i, 1)
spliceOut(a, i) == SubSeq(a, 1, i) \o SubSeq(a, i + 2, Len(a))
\* mutant: the element goes in one place further on
spliceInAfter(a, i, x) ==
  IF i + 1 > Len(a) THEN Append(a, x)
  ELSE SubSeq(a, 1, i + 1) \o <<x>> \o SubSeq(a, i + 2, Len(a))
\* a.splice(i, 0, x); a start past the end counts as the end
spliceIn(a, i, x) ==
  LET j == IF i > Len(a) THEN Len(a) ELSE i
  IN SubSeq(a, 1, j) \o <<x>> \o SubSeq(a, j + 1, Len(a))
\* a.findIndex((b) => b.id === id)
findIndexById(a, id) ==
  IF \E i \in 1 .. Len(a) : a[i].id = id
    THEN (CHOOSE i \in 1 .. Len(a) :
            a[i].id = id /\ \A j \in 1 .. (i - 1) : a[j].id # id) - 1
    ELSE -1
\* a.findIndex((b) => b.label === label)
findIndexByLabel(a, label) ==
  IF \E i \in 1 .. Len(a) : a[i].label = label
    THEN (CHOOSE i \in 1 .. Len(a) :
            a[i].label = label /\ \A j \in 1 .. (i - 1) : a[j].label # label) - 1
    ELSE -1

(***************************************************************************)
(* Return values.                                                          *)
(***************************************************************************)
RetNone == [t |-> "none"]
RetNull == [t |-> "null"]
RetVoid == [t |-> "void"]
RetBool(v) == [t |-> "bool", v |-> v]
RetBookmark(b) == [t |-> "bookmark", v |-> b]
RetList(items) == [t |-> "list", v |-> items]
RetUndefined == [t |-> "undefined"]
\* the call rejected with error e
RetThrow(e) == [t |-> "throw", v |-> e]

NoOp == [name |-> "none"]

InitStore ==
  /\ file = Absent
  /\ tmp = [q \in TempPaths |-> Absent]
  /\ pc = [p \in Callers |-> "idle"]
  /\ op = [p \in Callers |-> NoOp]
  /\ data = [p \in Callers |-> EmptyEnvelope]
  /\ seen = [p \in Callers |-> Absent]
  /\ ret = [p \in Callers |-> RetNone]
  /\ nextId = 0
  /\ issued = <<>>
  /\ clock = 0
  /\ lastWritten = EmptyEnvelope
  /\ lastRenamer = "nobody"
  /\ wrote = [p \in Callers |-> FALSE]
  /\ overlap = [p \in Callers |-> {}]
  /\ sawPartial = FALSE

\* the session names in the order tmux lists them: sorted by name
SessionNames == <<"test-init", "work">>
\* the name tmux gives a window whose command is the shell
DefaultWindowName == "bash"
WindowNames == {"", DefaultWindowName}
\* the directory the server was started in
ServerCwd == "/src"
\* "" is the pane_current_path of a pane whose directory tmux cannot tell
Cwds == {"", ServerCwd}

Null == <<>>
NoBookmark == [kind |-> "none"]
NoResult == [pending |-> TRUE]

\* TmuxTestServer.start: new-session -d -s test-init starts the server
InitTmux ==
  /\ sessions = {[sessionId |-> 1, sessionName |-> "test-init"]}
  /\ windows = {[windowId |-> 1, windowIndex |-> 0,
                 windowName |-> DefaultWindowName, sessionId |-> 1]}
  /\ panes = {[paneId |-> 1, paneIndex |-> 0, windowId |-> 1, sessionId |-> 1,
               cwd |-> ServerCwd]}
  /\ nextSession = 1
  /\ nextWindow = 1
  /\ bm = NoBookmark
  /\ result = NoResult
  /\ queried = <<>>
  /\ resolvedById = FALSE

\* no jump is under way; a first run has no view state yet
NoJump == [pc |-> "idle"]
NoView == [lastViewedId |-> Undefined, prevViewedId |-> Undefined]
NoSnapshot == [taken |-> FALSE]

InitJump ==
  /\ jump = NoJump
  /\ view = NoView
  /\ switched = <<>>
  /\ before = NoSnapshot

\* no getState is under way
NoSnap == [pc |-> "idle"]
\* no resolveBookmark is under way
NoCall == [pc |-> "idle"]

\* Before runPicker is called there is no picker.
NoPicker == [pc |-> "idle"]

InitPicker == pk = NoPicker

InitAdapter ==
  /\ snap = NoSnap
  /\ rs = NoCall
  /\ cands = {}

Init == InitStore /\ InitTmux /\ InitJump /\ InitAdapter /\ InitPicker

(***************************************************************************)
(* The steps of a store call.  A call reads this.path once; a mutating     *)
(* call then changes its local data and runs write(data): the temporary    *)
(* file is opened and filled, and then renamed over this.path.             *)
(***************************************************************************)
\* the value a mutating call returns once its write is through
ReturnOf(o) ==
  CASE o.name \in {"add", "replace"} -> RetBookmark(o.bookmark)
    [] o.name = "touch" -> RetVoid
    [] OTHER -> RetBool(TRUE)

\* the call has read, has changed its local data to d and calls write(d)
CallWrite(p, o, d) ==
  /\ pc' = [pc EXCEPT ![p] = "write"]
  /\ op' = [op EXCEPT ![p] = o]
  /\ data' = [data EXCEPT ![p] = d]
  /\ seen' = [seen EXCEPT ![p] = file]
  /\ sawPartial' = (sawPartial \/ (file.exists /\ ~file.complete))
  /\ UNCHANGED <<file, tmp, ret, lastWritten, lastRenamer, wrote, overlap>>

\* the call has read and returns r without writing
CallReturn(p, o, r) ==
  /\ pc' = [pc EXCEPT ![p] = "done"]
  /\ op' = [op EXCEPT ![p] = o]
  /\ ret' = [ret EXCEPT ![p] = r]
  /\ seen' = [seen EXCEPT ![p] = file]
  /\ sawPartial' = (sawPartial \/ (file.exists /\ ~file.complete))
  /\ UNCHANGED <<file, tmp, data, lastWritten, lastRenamer, wrote, overlap>>

\* mutant: the instance answers from the envelope it holds in memory
listCached(p) ==
  /\ pc[p] = "idle"
  /\ ~Unreadable(file)
  /\ CallReturn(p, [name |-> "list"], RetList(data[p].items))
  /\ UNCHANGED <<nextId, issued, clock>>

list(p) ==
  /\ pc[p] = "idle"
  /\ ~Unreadable(file)
  /\ LET d == read(file)
     IN CallReturn(p, [name |-> "list"],
                   IF "items" \in DOMAIN d THEN RetList(d.items) ELSE RetUndefined)
  /\ UNCHANGED <<nextId, issued, clock>>

get(p, id) ==
  /\ pc[p] = "idle"
  /\ ~Raises(file)
  /\ LET items == read(file).items
         index == findIndexById(items, id)
     IN CallReturn(p, [name |-> "get", id |-> id],
                   IF index = -1 THEN RetNull ELSE RetBookmark(At(items, index)))
  /\ UNCHANGED <<nextId, issued, clock>>

getByLabel(p, label) ==
  /\ pc[p] = "idle"
  /\ ~Raises(file)
  /\ LET items == read(file).items
         index == findIndexByLabel(items, label)
     IN CallReturn(p, [name |-> "getByLabel", label |-> label],
                   IF index = -1 THEN RetNull ELSE RetBookmark(At(items, index)))
  /\ UNCHANGED <<nextId, issued, clock>>

\* mutant: the slot is taken as a 0-based index
getBySlotZeroBased(p, slot) ==
  /\ pc[p] = "idle"
  /\ ~RaisesAt(file, slot)
  /\ LET items == read(file).items
         index == slot
     IN CallReturn(p, [name |-> "getBySlot", slot |-> slot],
                   IF index < 0 \/ index >= Len(items)
                     THEN RetNull
                     ELSE RetBookmark(At(items, index)))
  /\ UNCHANGED <<nextId, issued, clock>>

getBySlot(p, slot) ==
  /\ pc[p] = "idle"
  /\ ~RaisesAt(file, slot)
  /\ LET items == read(file).items
         index == slot - 1
     IN CallReturn(p, [name |-> "getBySlot", slot |-> slot],
                   IF index < 0 \/ index >= Len(items)
                     THEN RetNull
                     ELSE RetBookmark(At(items, index)))
  /\ UNCHANGED <<nextId, issued, clock>>

\* mutant: a call returns the id the call before it returned
generateIdAgain == IF nextId = 0 THEN 1 ELSE nextId
\* crypto.randomUUID(): an id that no earlier call returned
generateId == nextId + 1

\* the Bookmark that add and replace build; now() is called twice
NewBookmark(p, in, t1, t2) ==
  [id |-> generateId, label |-> in.label, kind |-> in.kind,
   target |-> in.target, fallback |-> in.fallback,
   meta |-> [cwd |-> in.cwd, host |-> EnvHost(p), lastUsed |-> t1, createdAt |-> t2]]

\* the seconds the second now() of one expression can return
NowAgain == {clock} \cup (IF clock < MaxClock THEN {clock + 1} ELSE {})

\* t2 is what the second now() returns
add(p, in, t2) ==
  /\ pc[p] = "idle"
  /\ ~Raises(file)
  /\ nextId < MaxIds
  /\ t2 \in NowAgain
  /\ LET d == read(file)
         bookmark == NewBookmark(p, in, clock, t2)
     IN CallWrite(p, [name |-> "add", bookmark |-> bookmark],
                  [d EXCEPT !.items = push(@, bookmark)])
  /\ nextId' = nextId + 1
  /\ issued' = Append(issued, NewBookmark(p, in, clock, t2))
  /\ clock' = t2

remove(p, id) ==
  /\ pc[p] = "idle"
  /\ ~Raises(file)
  /\ LET d == read(file)
         index == findIndexById(d.items, id)
     IN IF index = -1
          THEN CallReturn(p, [name |-> "remove", id |-> id], RetBool(FALSE))
          ELSE CallWrite(p, [name |-> "remove", id |-> id],
                         [d EXCEPT !.items = spliceOut(@, index)])
  /\ UNCHANGED <<nextId, issued, clock>>

removeBySlot(p, slot) ==
  /\ pc[p] = "idle"
  /\ ~RaisesAt(file, slot)
  /\ LET d == read(file)
         index == slot - 1
     IN IF index < 0 \/ index >= Len(d.items)
          THEN CallReturn(p, [name |-> "removeBySlot", slot |-> slot], RetBool(FALSE))
          ELSE CallWrite(p, [name |-> "removeBySlot", slot |-> slot],
                         [d EXCEPT !.items = spliceOut(@, index)])
  /\ UNCHANGED <<nextId, issued, clock>>

move(p, fromSlot, toSlot) ==
  /\ pc[p] = "idle"
  /\ ~RaisesAt(file, fromSlot)
  /\ LET d == read(file)
         fromIndex == fromSlot - 1
         toIndex == toSlot - 1
         o == [name |-> "move", fromSlot |-> fromSlot, toSlot |-> toSlot]
     IN IF \/ fromIndex < 0 \/ fromIndex >= Len(d.items)
           \/ toIndex < 0 \/ toIndex >= Len(d.items)
          THEN CallReturn(p, o, RetBool(FALSE))
          ELSE CallWrite(p, o,
                 [d EXCEPT !.items = spliceIn(spliceOut(@, fromIndex), toIndex,
                                              At(d.items, fromIndex))])
  /\ UNCHANGED <<nextId, issued, clock>>

\* mutant: the label is assigned to the first entry
setLabelFirst(items, index, newLabel) ==
  [items EXCEPT ![1] = [@ EXCEPT !.label = newLabel]]
\* items.find((b) => b.id === id) has found the entry at index; its label is assigned
setLabel(items, index, newLabel) ==
  [items EXCEPT ![index + 1] = [@ EXCEPT !.label = newLabel]]

rename(p, id, newLabel) ==
  /\ pc[p] = "idle"
  /\ ~Raises(file)
  /\ LET d == read(file)
         index == findIndexById(d.items, id)
         o == [name |-> "rename", id |-> id, label |-> newLabel]
     IN IF index = -1
          THEN CallReturn(p, o, RetBool(FALSE))
          ELSE CallWrite(p, o, [d EXCEPT !.items = setLabel(@, index, newLabel)])
  /\ UNCHANGED <<nextId, issued, clock>>

\* mutant: the new bookmark takes over the id of the entry it replaces
setAtKeepId(items, index, bookmark) ==
  [items EXCEPT ![index + 1] = [bookmark EXCEPT !.id = items[index + 1].id]]
\* data.items[index] = bookmark, with index < items.length
setAt(items, index, bookmark) == [items EXCEPT ![index + 1] = bookmark]

\* t2 is what the second now() returns; no id is generated for a slot below 1
replace(p, slot, in, t2) ==
  /\ pc[p] = "idle"
  /\ ~RaisesAt(file, slot)
  /\ LET d == read(file)
         index == slot - 1
         bookmark == NewBookmark(p, in, clock, t2)
         o == [name |-> "replace", slot |-> slot, in |-> in, at |-> clock,
               bookmark |-> bookmark]
     IN IF index < 0
          THEN /\ CallReturn(p, [name |-> "replace", slot |-> slot], RetNull)
               /\ UNCHANGED <<nextId, issued, clock>>
          ELSE /\ nextId < MaxIds
               /\ t2 \in NowAgain
               /\ IF Len(d.items) <= index
                    THEN CallWrite(p, o, [d EXCEPT !.items = push(@, bookmark)])
                    ELSE CallWrite(p, o, [d EXCEPT !.items = setAt(@, index, bookmark)])
               /\ nextId' = nextId + 1
               /\ issued' = Append(issued, NewBookmark(p, in, clock, t2))
               /\ clock' = t2

\* mutant: createdAt is assigned as well
setLastUsedAndCreatedAt(items, index, t) ==
  [items EXCEPT ![index + 1] =
     [@ EXCEPT !.meta = [@ EXCEPT !.lastUsed = t, !.createdAt = t]]]
\* the found entry's meta.lastUsed is assigned now()
setLastUsed(items, index, t) ==
  [items EXCEPT ![index + 1] = [@ EXCEPT !.meta = [@ EXCEPT !.lastUsed = t]]]

\* mutant: the envelope is written whether or not the id was found
touchAlwaysWrites(p, id) ==
  /\ pc[p] = "idle"
  /\ ~Raises(file)
  /\ LET d == read(file)
         index == findIndexById(d.items, id)
         o == [name |-> "touch", id |-> id]
     IN IF index = -1
          THEN CallWrite(p, o, d)
          ELSE CallWrite(p, o, [d EXCEPT !.items = setLastUsed(@, index, clock)])
  /\ UNCHANGED <<nextId, issued, clock>>

touch(p, id) ==
  /\ pc[p] = "idle"
  /\ ~Raises(file)
  /\ LET d == read(file)
         index == findIndexById(d.items, id)
         o == [name |-> "touch", id |-> id]
     IN IF index = -1
          THEN CallReturn(p, o, RetVoid)
          ELSE CallWrite(p, o, [d EXCEPT !.items = setLastUsed(@, index, clock)])
  /\ UNCHANGED <<nextId, issued, clock>>

\* Date.now() passes a second boundary
Tick ==
  /\ clock < MaxClock
  /\ clock' = clock + 1
  /\ UNCHANGED <<file, tmp, pc, op, data, seen, ret, nextId, issued,
                 lastWritten, lastRenamer, wrote, overlap, sawPartial>>

\* the calls of the store with their arguments
Calls ==
  {[name |-> "list"], [name |-> "add"]}
    \cup {[name |-> n, id |-> id] : n \in {"get", "remove", "rename", "touch"}, id \in Ids}
    \cup {[name |-> "getByLabel", label |-> label] : label \in Labels}
    \cup {[name |-> n, slot |-> slot] :
            n \in {"getBySlot", "removeBySlot", "replace"}, slot \in Slots}
    \cup {[name |-> "move", fromSlot |-> fromSlot, toSlot |-> toSlot] :
            fromSlot \in Slots, toSlot \in Slots}

\* the call o rejects with the TypeError of read() or of data.items
raise(p, o) ==
  /\ pc[p] = "idle"
  /\ CASE o.name = "list" -> Unreadable(file)
       [] o.name \in {"getBySlot", "removeBySlot", "replace"} -> RaisesAt(file, o.slot)
       [] o.name = "move" -> RaisesAt(file, o.fromSlot)
       [] OTHER -> Raises(file)
  /\ CallReturn(p, o, RetThrow("TypeError"))
  /\ UNCHANGED <<nextId, issued, clock>>

\* mutant: the text is written over this.path itself, without a temporary file
WriteBeginInPlace(p) ==
  /\ pc[p] = "write"
  /\ file' = Partial(JSONstringify(data[p]))
  /\ tmp' = [tmp EXCEPT ![TempPath(p)] = Partial(JSONstringify(data[p]))]
  /\ pc' = [pc EXCEPT ![p] = "writing"]
  /\ UNCHANGED <<op, data, seen, ret, nextId, issued, clock,
                 lastWritten, lastRenamer, wrote, overlap, sawPartial>>

\* Bun.write(tempPath, ...) has opened the temporary file and written part of the text
WriteBegin(p) ==
  /\ pc[p] = "write"
  /\ tmp' = [tmp EXCEPT ![TempPath(p)] = Partial(JSONstringify(data[p]))]
  /\ pc' = [pc EXCEPT ![p] = "writing"]
  /\ UNCHANGED <<file, op, data, seen, ret, nextId, issued, clock,
                 lastWritten, lastRenamer, wrote, overlap, sawPartial>>

\* Bun.write(tempPath, ...) is through.  The call writes to the file it opened:
\* when another call that uses the same tempPath has opened and written it in
\* between, the two texts can end up mixed (no JSON text); when the file was
\* renamed to this.path in between, the text is completed there.
WriteEnd(p) ==
  /\ pc[p] = "writing"
  /\ LET text == JSONstringify(data[p])
     IN IF tmp[TempPath(p)].exists
          THEN /\ \/ tmp' = [tmp EXCEPT ![TempPath(p)] = text]
                  \/ /\ tmp[TempPath(p)] # Partial(text)
                     /\ tmp' = [tmp EXCEPT ![TempPath(p)] = Partial(text)]
               /\ file' = file
          ELSE /\ file' = (IF file = Partial(text) THEN text ELSE file)
               /\ tmp' = tmp
  /\ pc' = [pc EXCEPT ![p] = "rename"]
  /\ UNCHANGED <<op, data, seen, ret, nextId, issued, clock,
                 lastWritten, lastRenamer, wrote, overlap, sawPartial>>

\* rename(tempPath, this.path), and the call returns.  With nothing at tempPath
\* rename fails: the catch block unlinks tempPath (nothing is there) and rethrows.
Rename(p) ==
  /\ pc[p] = "rename"
  /\ IF tmp[TempPath(p)].exists
       THEN /\ file' = tmp[TempPath(p)]
            /\ tmp' = [tmp EXCEPT ![TempPath(p)] = Absent]
            /\ ret' = [ret EXCEPT ![p] = ReturnOf(op[p])]
            /\ lastWritten' = data[p]
            /\ lastRenamer' = p
            /\ wrote' = [wrote EXCEPT ![p] = TRUE]
            /\ overlap' = [overlap EXCEPT
                 ![p] = {q \in Callers \ {p} : pc[q] \in {"write", "writing", "rename"}}]
       ELSE /\ ret' = [ret EXCEPT ![p] = RetThrow("ENOENT")]
            /\ UNCHANGED <<file, tmp, lastWritten, lastRenamer, wrote, overlap>>
  /\ pc' = [pc EXCEPT ![p] = "done"]
  /\ UNCHANGED <<op, data, seen, nextId, issued, clock, sawPartial>>

\* mutant: the catch block rethrows without unlinking the temporary file
WriteFailNoCleanup(p, e) ==
  /\ pc[p] \in {"write", "writing"}
  /\ ret' = [ret EXCEPT ![p] = RetThrow(e)]
  /\ pc' = [pc EXCEPT ![p] = "done"]
  /\ UNCHANGED <<file, tmp, op, data, seen, nextId, issued, clock,
                 lastWritten, lastRenamer, wrote, overlap, sawPartial>>

\* Bun.write(tempPath, ...) rejects with e, before or after it has written part
\* of the text: the catch block unlinks tempPath and rethrows
WriteFail(p, e) ==
  /\ pc[p] \in {"write", "writing"}
  /\ tmp' = [tmp EXCEPT ![TempPath(p)] = Absent]
  /\ ret' = [ret EXCEPT ![p] = RetThrow(e)]
  /\ pc' = [pc EXCEPT ![p] = "done"]
  /\ UNCHANGED <<file, op, data, seen, nextId, issued, clock,
                 lastWritten, lastRenamer, wrote, overlap, sawPartial>>

\* rename(tempPath, this.path) rejects with e: the catch block unlinks tempPath
\* and rethrows
RenameFail(p, e) ==
  /\ pc[p] = "rename"
  /\ tmp' = [tmp EXCEPT ![TempPath(p)] = Absent]
  /\ ret' = [ret EXCEPT ![p] = RetThrow(e)]
  /\ pc' = [pc EXCEPT ![p] = "done"]
  /\ UNCHANGED <<file, op, data, seen, nextId, issued, clock,
                 lastWritten, lastRenamer, wrote, overlap, sawPartial>>

\* the process dies inside write(), before its rename; what it had in memory is
\* kept here as a record of the call that was cut short
Crash(p) ==
  /\ pc[p] \in {"write", "writing", "rename"}
  /\ pc' = [pc EXCEPT ![p] = "crashed"]
  /\ UNCHANGED <<file, tmp, op, data, seen, ret, nextId, issued, clock,
                 lastWritten, lastRenamer, wrote, overlap, sawPartial>>

\* a new process takes the place of the one that died
Restart(p) ==
  /\ pc[p] = "crashed"
  /\ pc' = [pc EXCEPT ![p] = "idle"]
  /\ op' = [op EXCEPT ![p] = NoOp]
  /\ data' = [data EXCEPT ![p] = EmptyEnvelope]
  /\ seen' = [seen EXCEPT ![p] = Absent]
  /\ UNCHANGED <<file, tmp, ret, nextId, issued, clock,
                 lastWritten, lastRenamer, wrote, overlap, sawPartial>>

\* the caller has the result; the process is free for its next call
Return(p) ==
  /\ pc[p] = "done"
  /\ pc' = [pc EXCEPT ![p] = "idle"]
  /\ op' = [op EXCEPT ![p] = NoOp]
  /\ data' = [data EXCEPT ![p] = EmptyEnvelope]
  /\ seen' = [seen EXCEPT ![p] = Absent]
  /\ ret' = [ret EXCEPT ![p] = RetNone]
  /\ wrote' = [wrote EXCEPT ![p] = FALSE]
  /\ overlap' = [overlap EXCEPT ![p] = {}]
  /\ UNCHANGED <<file, tmp, nextId, issued, clock, lastWritten, lastRenamer, sawPartial>>

(***************************************************************************)
(* Spec: the processes of Procs call the store on one path, unsynchronized,*)
(* within one second.                                                      *)
(***************************************************************************)
Next ==
  \/ \E p \in Procs : list(p) /\ UNCHANGED <<tmuxVars, resolverVars, jumpVars, adapterVars, pickerVars>>
  \/ \E p \in Procs, in \in AddInputs : add(p, in, clock) /\ UNCHANGED <<tmuxVars, resolverVars, jumpVars, adapterVars, pickerVars>>
  \/ \E p \in Procs, id \in Ids : remove(p, id) /\ UNCHANGED <<tmuxVars, resolverVars, jumpVars, adapterVars, pickerVars>>
  \/ \E p \in Procs : WriteBegin(p) /\ UNCHANGED <<tmuxVars, resolverVars, jumpVars, adapterVars, pickerVars>>
  \/ \E p \in Procs : WriteEnd(p) /\ UNCHANGED <<tmuxVars, resolverVars, jumpVars, adapterVars, pickerVars>>
  \/ \E p \in Procs : Rename(p) /\ UNCHANGED <<tmuxVars, resolverVars, jumpVars, adapterVars, pickerVars>>
  \/ \E p \in Procs : Return(p) /\ UNCHANGED <<tmuxVars, resolverVars, jumpVars, adapterVars, pickerVars>>

Spec == Init /\ [][Next]_vars

(***************************************************************************)
(* SpecSeq: one process reads, adds, removes and moves bookmarks, one call  *)
(* after the other.                                                        *)
(***************************************************************************)
Main == "p1"

NextSeq ==
  \/ list(Main) /\ UNCHANGED <<tmuxVars, resolverVars, jumpVars, adapterVars, pickerVars>>
  \/ \E id \in Ids : get(Main, id) /\ UNCHANGED <<tmuxVars, resolverVars, jumpVars, adapterVars, pickerVars>>
  \/ \E label \in Labels : getByLabel(Main, label) /\ UNCHANGED <<tmuxVars, resolverVars, jumpVars, adapterVars, pickerVars>>
  \/ \E slot \in Slots : getBySlot(Main, slot) /\ UNCHANGED <<tmuxVars, resolverVars, jumpVars, adapterVars, pickerVars>>
  \/ \E in \in AddInputs : add(Main, in, clock) /\ UNCHANGED <<tmuxVars, resolverVars, jumpVars, adapterVars, pickerVars>>
  \/ \E id \in Ids : remove(Main, id) /\ UNCHANGED <<tmuxVars, resolverVars, jumpVars, adapterVars, pickerVars>>
  \/ \E slot \in Slots : removeBySlot(Main, slot) /\ UNCHANGED <<tmuxVars, resolverVars, jumpVars, adapterVars, pickerVars>>
  \/ \E fromSlot \in Slots, toSlot \in Slots : move(Main, fromSlot, toSlot) /\ UNCHANGED <<tmuxVars, resolverVars, jumpVars, adapterVars, pickerVars>>
  \/ WriteBegin(Main) /\ UNCHANGED <<tmuxVars, resolverVars, jumpVars, adapterVars, pickerVars>>
  \/ WriteEnd(Main) /\ UNCHANGED <<tmuxVars, resolverVars, jumpVars, adapterVars, pickerVars>>
  \/ Rename(Main) /\ UNCHANGED <<tmuxVars, resolverVars, jumpVars, adapterVars, pickerVars>>
  \/ Return(Main) /\ UNCHANGED <<tmuxVars, resolverVars, jumpVars, adapterVars, pickerVars>>

SpecSeq == Init /\ [][NextSeq]_vars

(***************************************************************************)
(* SpecEdit: one process adds and removes bookmarks and edits them in      *)
(* place (replace, rename, touch), while the clock advances.               *)
(***************************************************************************)
NextEdit ==
  \/ \E in \in AddInputs : add(Main, in, clock) /\ UNCHANGED <<tmuxVars, resolverVars, jumpVars, adapterVars, pickerVars>>
  \/ \E id \in Ids : remove(Main, id) /\ UNCHANGED <<tmuxVars, resolverVars, jumpVars, adapterVars, pickerVars>>
  \/ \E id \in Ids, newLabel \in Labels : rename(Main, id, newLabel) /\ UNCHANGED <<tmuxVars, resolverVars, jumpVars, adapterVars, pickerVars>>
  \/ \E slot \in Slots, in \in AddInputs, t2 \in NowAgain : replace(Main, slot, in, t2) /\ UNCHANGED <<tmuxVars, resolverVars, jumpVars, adapterVars, pickerVars>>
  \/ \E id \in Ids : touch(Main, id) /\ UNCHANGED <<tmuxVars, resolverVars, jumpVars, adapterVars, pickerVars>>
  \/ Tick /\ UNCHANGED <<tmuxVars, resolverVars, jumpVars, adapterVars, pickerVars>>
  \/ WriteBegin(Main) /\ UNCHANGED <<tmuxVars, resolverVars, jumpVars, adapterVars, pickerVars>>
  \/ WriteEnd(Main) /\ UNCHANGED <<tmuxVars, resolverVars, jumpVars, adapterVars, pickerVars>>
  \/ Rename(Main) /\ UNCHANGED <<tmuxVars, resolverVars, jumpVars, adapterVars, pickerVars>>
  \/ Return(Main) /\ UNCHANGED <<tmuxVars, resolverVars, jumpVars, adapterVars, pickerVars>>

SpecEdit == Init /\ [][NextEdit]_vars

(***************************************************************************)
(* SpecIds: one process adds, replaces, renames, touches, moves and        *)
(* removes bookmarks while a second process adds bookmarks on the same     *)
(* path.                                                                   *)
(***************************************************************************)
Other == "p2"

NextIds ==
  \/ \E p \in Procs, in \in AddInputs : add(p, in, clock) /\ UNCHANGED <<tmuxVars, resolverVars, jumpVars, adapterVars, pickerVars>>
  \/ \E id \in Ids : remove(Main, id) /\ UNCHANGED <<tmuxVars, resolverVars, jumpVars, adapterVars, pickerVars>>
  \/ \E fromSlot \in Slots, toSlot \in Slots : move(Main, fromSlot, toSlot) /\ UNCHANGED <<tmuxVars, resolverVars, jumpVars, adapterVars, pickerVars>>
  \/ \E id \in Ids : rename(Main, id, "first") /\ UNCHANGED <<tmuxVars, resolverVars, jumpVars, adapterVars, pickerVars>>
  \/ \E slot \in Slots, in \in AddInputs : replace(Main, slot, in, clock) /\ UNCHANGED <<tmuxVars, resolverVars, jumpVars, adapterVars, pickerVars>>
  \/ \E id \in Ids : touch(Main, id) /\ UNCHANGED <<tmuxVars, resolverVars, jumpVars, adapterVars, pickerVars>>
  \/ \E p \in Procs : WriteBegin(p) /\ UNCHANGED <<tmuxVars, resolverVars, jumpVars, adapterVars, pickerVars>>
  \/ \E p \in Procs : WriteEnd(p) /\ UNCHANGED <<tmuxVars, resolverVars, jumpVars, adapterVars, pickerVars>>
  \/ \E p \in Procs : Rename(p) /\ UNCHANGED <<tmuxVars, resolverVars, jumpVars, adapterVars, pickerVars>>
  \/ \E p \in Procs : Return(p) /\ UNCHANGED <<tmuxVars, resolverVars, jumpVars, adapterVars, pickerVars>>

SpecIds == Init /\ [][NextIds]_vars

(***************************************************************************)
(* SpecFiles: one process calls the store on a path that holds what an     *)
(* earlier run left there: nothing, a cut-off text, a JSON text that is no *)
(* envelope, or an envelope of an older, the current or a newer schema     *)
(* version with one bookmark.                                              *)
(***************************************************************************)
\* the bookmark an earlier add built
Stored ==
  LET in == CHOOSE in \in AddInputs : in.label = "first"
  IN [id |-> 1, label |-> in.label, kind |-> in.kind,
      target |-> in.target, fallback |-> in.fallback,
      meta |-> [cwd |-> in.cwd, host |-> EnvHost(Main), lastUsed |-> 0, createdAt |-> 0]]

EnvelopeText(version) == JSONstringify([version |-> version, items |-> <<Stored>>])

Versions ==
  {CURRENT_SCHEMA_VERSION - 1, CURRENT_SCHEMA_VERSION, CURRENT_SCHEMA_VERSION + 1}

InitialFiles ==
  {Absent, Partial(EnvelopeText(CURRENT_SCHEMA_VERSION)), NullText, ObjectText}
    \cup {EnvelopeText(version) : version \in Versions}

InitFiles ==
  /\ file \in InitialFiles
  /\ tmp = [q \in TempPaths |-> Absent]
  /\ pc = [p \in Callers |-> "idle"]
  /\ op = [p \in Callers |-> NoOp]
  /\ data = [p \in Callers |-> EmptyEnvelope]
  /\ seen = [p \in Callers |-> Absent]
  /\ ret = [p \in Callers |-> RetNone]
  /\ nextId = 1
  /\ issued = <<Stored>>
  /\ clock = 0
  /\ lastWritten = EmptyEnvelope
  /\ lastRenamer = "nobody"
  /\ wrote = [p \in Callers |-> FALSE]
  /\ overlap = [p \in Callers |-> {}]
  /\ sawPartial = FALSE
  /\ InitTmux
  /\ InitJump
  /\ InitAdapter
  /\ InitPicker

NextFiles ==
  \/ list(Main) /\ UNCHANGED <<tmuxVars, resolverVars, jumpVars, adapterVars, pickerVars>>
  \/ \E id \in Ids : get(Main, id) /\ UNCHANGED <<tmuxVars, resolverVars, jumpVars, adapterVars, pickerVars>>
  \/ \E label \in Labels : getByLabel(Main, label) /\ UNCHANGED <<tmuxVars, resolverVars, jumpVars, adapterVars, pickerVars>>
  \/ \E slot \in Slots : getBySlot(Main, slot) /\ UNCHANGED <<tmuxVars, resolverVars, jumpVars, adapterVars, pickerVars>>
  \/ \E in \in AddInputs : add(Main, in, clock) /\ UNCHANGED <<tmuxVars, resolverVars, jumpVars, adapterVars, pickerVars>>
  \/ \E id \in Ids : remove(Main, id) /\ UNCHANGED <<tmuxVars, resolverVars, jumpVars, adapterVars, pickerVars>>
  \/ \E slot \in Slots : removeBySlot(Main, slot) /\ UNCHANGED <<tmuxVars, resolverVars, jumpVars, adapterVars, pickerVars>>
  \/ \E fromSlot \in Slots, toSlot \in Slots : move(Main, fromSlot, toSlot) /\ UNCHANGED <<tmuxVars, resolverVars, jumpVars, adapterVars, pickerVars>>
  \/ WriteBegin(Main) /\ UNCHANGED <<tmuxVars, resolverVars, jumpVars, adapterVars, pickerVars>>
  \/ WriteEnd(Main) /\ UNCHANGED <<tmuxVars, resolverVars, jumpVars, adapterVars, pickerVars>>
  \/ Rename(Main) /\ UNCHANGED <<tmuxVars, resolverVars, jumpVars, adapterVars, pickerVars>>
  \/ Return(Main) /\ UNCHANGED <<tmuxVars, resolverVars, jumpVars, adapterVars, pickerVars>>
  \/ \E id \in Ids, newLabel \in Labels : rename(Main, id, newLabel) /\ UNCHANGED <<tmuxVars, resolverVars, jumpVars, adapterVars, pickerVars>>
  \/ \E slot \in Slots, in \in AddInputs : replace(Main, slot, in, clock) /\ UNCHANGED <<tmuxVars, resolverVars, jumpVars, adapterVars, pickerVars>>
  \/ \E id \in Ids : touch(Main, id) /\ UNCHANGED <<tmuxVars, resolverVars, jumpVars, adapterVars, pickerVars>>
  \/ \E o \in Calls : raise(Main, o) /\ UNCHANGED <<tmuxVars, resolverVars, jumpVars, adapterVars, pickerVars>>

SpecFiles == InitFiles /\ [][NextFiles]_vars

(***************************************************************************)
(* SpecFaults: one process adds and removes; its write can fail in         *)
(* Bun.write or in rename, and the process can die inside write().  A      *)
(* second process lists.                                                   *)
(***************************************************************************)
\* what Bun.write and rename reject with
WriteErrors == {"ENOSPC"}
RenameErrors == {"EACCES"}

NextFaults ==
  \/ list(Other) /\ UNCHANGED <<tmuxVars, resolverVars, jumpVars, adapterVars, pickerVars>>
  \/ \E in \in AddInputs : add(Main, in, clock) /\ UNCHANGED <<tmuxVars, resolverVars, jumpVars, adapterVars, pickerVars>>
  \/ \E id \in Ids : remove(Main, id) /\ UNCHANGED <<tmuxVars, resolverVars, jumpVars, adapterVars, pickerVars>>
  \/ WriteBegin(Main) /\ UNCHANGED <<tmuxVars, resolverVars, jumpVars, adapterVars, pickerVars>>
  \/ WriteEnd(Main) /\ UNCHANGED <<tmuxVars, resolverVars, jumpVars, adapterVars, pickerVars>>
  \/ Rename(Main) /\ UNCHANGED <<tmuxVars, resolverVars, jumpVars, adapterVars, pickerVars>>
  \/ \E e \in WriteErrors : WriteFail(Main, e) /\ UNCHANGED <<tmuxVars, resolverVars, jumpVars, adapterVars, pickerVars>>
  \/ \E e \in RenameErrors : RenameFail(Main, e) /\ UNCHANGED <<tmuxVars, resolverVars, jumpVars, adapterVars, pickerVars>>
  \/ Crash(Main) /\ UNCHANGED <<tmuxVars, resolverVars, jumpVars, adapterVars, pickerVars>>
  \/ Restart(Main) /\ UNCHANGED <<tmuxVars, resolverVars, jumpVars, adapterVars, pickerVars>>
  \/ \E p \in Procs : Return(p) /\ UNCHANGED <<tmuxVars, resolverVars, jumpVars, adapterVars, pickerVars>>

SpecFaults == Init /\ [][NextFaults]_vars

(***************************************************************************)
(* SpecRapid: two add calls run on one BookmarkStore instance in one       *)
(* process, neither awaiting the other (Promise.all); list is called when  *)
(* both have returned.                                                     *)
(***************************************************************************)
Rapid == {Main, Sibling}

NextRapid ==
  \/ \E p \in Rapid, in \in AddInputs : add(p, in, clock) /\ UNCHANGED <<tmuxVars, resolverVars, jumpVars, adapterVars, pickerVars>>
  \/ (pc[Sibling] = "idle" /\ list(Main)) /\ UNCHANGED <<tmuxVars, resolverVars, jumpVars, adapterVars, pickerVars>>
  \/ \E p \in Rapid : WriteBegin(p) /\ UNCHANGED <<tmuxVars, resolverVars, jumpVars, adapterVars, pickerVars>>
  \/ \E p \in Rapid : WriteEnd(p) /\ UNCHANGED <<tmuxVars, resolverVars, jumpVars, adapterVars, pickerVars>>
  \/ \E p \in Rapid : Rename(p) /\ UNCHANGED <<tmuxVars, resolverVars, jumpVars, adapterVars, pickerVars>>
  \/ \E p \in Rapid : Return(p) /\ UNCHANGED <<tmuxVars, resolverVars, jumpVars, adapterVars, pickerVars>>

SpecRapid == Init /\ [][NextRapid]_vars

(***************************************************************************)
(* What the claims speak of.                                               *)
(***************************************************************************)
\* the persisted sequence: the items of the text at this.path
ItemsOf(f) == IF f.exists THEN f.items ELSE <<>>
\* the sequence s without its k-th entry (1-based)
WithoutAt(s, k) == [i \in 1 .. (Len(s) - 1) |-> IF i < k THEN s[i] ELSE s[i + 1]]
\* how often x occurs in s
Count(s, x) == Cardinality({i \in 1 .. Len(s) : s[i] = x})
IdsIn(s) == {s[i].id : i \in 1 .. Len(s)}
\* the slot of the entry with this id
SlotOfId(s, id) == CHOOSE k \in 1 .. Len(s) : s[k].id = id
\* the persisted sequence a mutating call leaves when it finds `old`
Effect(o, old) ==
  CASE o.name = "add" -> Append(old, StringifyBookmark(o.bookmark))
    [] o.name = "remove" -> WithoutAt(old, SlotOfId(old, o.id))
    [] o.name = "removeBySlot" -> WithoutAt(old, o.slot)
    [] OTHER -> old
Finished(p) == pc[p] = "done"

(***************************************************************************)
(* C1.  Whatever the interleaving of the processes' store calls, the file  *)
(* at the store path is absent or is exactly the complete text of the      *)
(* envelope handed to an earlier write call (the one whose rename came     *)
(* last), and no read meets or returns a partly written envelope: list     *)
(* returns exactly the items of the complete file it read.                 *)
(***************************************************************************)
C1_FileAlwaysComplete ==
  /\ \/ file = Absent
     \/ /\ lastRenamer \in Procs
        /\ file.complete
        /\ file = JSONstringify(lastWritten)
  /\ ~sawPartial
  /\ \A p \in Procs :
       (Finished(p) /\ op[p].name = "list") =>
          /\ seen[p].exists => seen[p].complete
          /\ ret[p].t = "list"
          /\ [i \in 1 .. Len(ret[p].v) |-> StringifyBookmark(ret[p].v[i])] = ItemsOf(seen[p])

\* one process reads the file while the other's temporary file is partly written
C1_Witness ==
  \E p, q \in Procs :
    /\ p # q
    /\ pc[p] = "writing" /\ tmp[TempPath(p)].exists /\ ~tmp[TempPath(p)].complete
    /\ Finished(q) /\ op[q].name = "list" /\ Len(ret[q].v) >= 1
    /\ file.exists

(***************************************************************************)
(* C2.  When two mutating calls of different processes have both read the  *)
(* file before either renamed, both report success, and once the later     *)
(* rename is through the file holds the later call's mutation applied to   *)
(* the state that call read; the earlier call's mutation is not in it.     *)
(***************************************************************************)
C2_LastWriterWins ==
  /\ \A p \in Procs : Finished(p) => ret[p].t # "throw"
  /\ \A p, q \in Procs :
       ( /\ p # q
         /\ Finished(p) /\ wrote[p]
         /\ Finished(q) /\ wrote[q]
         /\ q \in overlap[p]
         /\ lastRenamer = q )
       => /\ ret[p] = ReturnOf(op[p]) /\ ret[q] = ReturnOf(op[q])
          /\ file.exists /\ file.complete /\ file.version = CURRENT_SCHEMA_VERSION
          /\ ItemsOf(file) = Effect(op[q], ItemsOf(seen[q]))
          /\ op[p].name = "add" => op[p].bookmark.id \notin IdsIn(ItemsOf(file))
          /\ (op[p].name = "remove" /\ op[p].id \in IdsIn(ItemsOf(seen[q]))
                /\ ~(op[q].name = "remove" /\ op[q].id = op[p].id))
               => op[p].id \in IdsIn(ItemsOf(file))

\* two adds raced on a file that held a bookmark, and the later rename is through
C2_Witness ==
  \E p, q \in Procs :
    /\ p # q
    /\ Finished(p) /\ wrote[p] /\ op[p].name = "add"
    /\ Finished(q) /\ wrote[q] /\ op[q].name = "add"
    /\ q \in overlap[p] /\ lastRenamer = q
    /\ Len(ItemsOf(seen[q])) = 1
    /\ Len(ItemsOf(file)) = 2

(***************************************************************************)
(* C7.  getBySlot(k) returns the bookmark at position k-1 of the persisted *)
(* sequence when 1 <= k <= length, and null, as a value, for every other   *)
(* integer k, also when the file is missing or empty.                      *)
(***************************************************************************)
C7_GetBySlot ==
  \A p \in Procs :
    (Finished(p) /\ op[p].name = "getBySlot") =>
       LET k == op[p].slot
           s == ItemsOf(file)
       IN IF 1 <= k /\ k <= Len(s)
            THEN ret[p].t = "bookmark" /\ StringifyBookmark(ret[p].v) = s[k]
            ELSE ret[p] = RetNull

\* slot 2 of a store of three was asked for
C7_Witness ==
  /\ Finished(Main) /\ op[Main].name = "getBySlot" /\ op[Main].slot = 2
  /\ Len(ItemsOf(file)) = 3
  /\ ret[Main].t = "bookmark"

(***************************************************************************)
(* C8.  add appends: after an add on a store of length n the sequence has  *)
(* length n+1, the bookmark add returned is at slot n+1, and the first n   *)
(* entries are unchanged in content and order; list returns the sequence   *)
(* in that order.                                                          *)
(***************************************************************************)
C8_AddAppends ==
  \A p \in Procs :
    /\ (Finished(p) /\ op[p].name = "add") =>
          LET old == ItemsOf(seen[p])
              new == ItemsOf(file)
              n == Len(old)
          IN /\ ret[p].t = "bookmark"
             /\ Len(new) = n + 1
             /\ new[n + 1] = StringifyBookmark(ret[p].v)
             /\ \A i \in 1 .. n : new[i] = old[i]
    /\ (Finished(p) /\ op[p].name = "list") =>
          /\ ret[p].t = "list"
          /\ Len(ret[p].v) = Len(ItemsOf(file))
          /\ \A i \in 1 .. Len(ret[p].v) :
               StringifyBookmark(ret[p].v[i]) = ItemsOf(file)[i]

\* a third bookmark was added behind two
C8_Witness ==
  /\ Finished(Main) /\ op[Main].name = "add"
  /\ Len(ItemsOf(seen[Main])) = 2
  /\ Len(ItemsOf(file)) = 3

(***************************************************************************)
(* C9.  remove(id) and removeBySlot(slot) on a present target return true  *)
(* and delete exactly that entry: the length drops by one, the entries     *)
(* before it stay, and every entry after it moves down by one slot.        *)
(***************************************************************************)
C9_RemoveShifts ==
  \A p \in Procs :
    LET old == ItemsOf(seen[p])
        new == ItemsOf(file)
        present == \/ op[p].name = "remove" /\ op[p].id \in IdsIn(old)
                   \/ op[p].name = "removeBySlot" /\ 1 <= op[p].slot /\ op[p].slot <= Len(old)
        k == IF op[p].name = "remove" THEN SlotOfId(old, op[p].id) ELSE op[p].slot
    IN (Finished(p) /\ present) =>
         /\ ret[p] = RetBool(TRUE)
         /\ Len(new) = Len(old) - 1
         /\ \A i \in 1 .. (k - 1) : new[i] = old[i]
         /\ \A i \in k .. Len(new) : new[i] = old[i + 1]

\* the middle one of three was removed by slot
C9_Witness ==
  /\ Finished(Main) /\ op[Main].name = "removeBySlot" /\ op[Main].slot = 2
  /\ Len(ItemsOf(seen[Main])) = 3
  /\ Len(ItemsOf(file)) = 2
  /\ ItemsOf(file)[2] = ItemsOf(seen[Main])[3]

(***************************************************************************)
(* C10.  For both slots in 1..length, move(from, to) returns true and is a *)
(* permutation: every bookmark occurs as often as before, the one at slot  *)
(* `to` afterwards is the one that was at slot `from`, and the others keep *)
(* their relative order.                                                   *)
(***************************************************************************)
C10_MovePermutes ==
  \A p \in Procs :
    LET old == ItemsOf(seen[p])
        new == ItemsOf(file)
        valid == /\ op[p].name = "move"
                 /\ 1 <= op[p].fromSlot /\ op[p].fromSlot <= Len(old)
                 /\ 1 <= op[p].toSlot /\ op[p].toSlot <= Len(old)
    IN (Finished(p) /\ valid) =>
         /\ ret[p] = RetBool(TRUE)
         /\ Len(new) = Len(old)
         /\ \A i \in 1 .. Len(old) : Count(new, old[i]) = Count(old, old[i])
         /\ new[op[p].toSlot] = old[op[p].fromSlot]
         /\ WithoutAt(new, op[p].toSlot) = WithoutAt(old, op[p].fromSlot)

\* move(1, 3) on a store of three
C10_Witness ==
  /\ Finished(Main) /\ op[Main].name = "move"
  /\ op[Main].fromSlot = 1 /\ op[Main].toSlot = 3
  /\ Len(ItemsOf(seen[Main])) = 3
  /\ ItemsOf(file) = <<ItemsOf(seen[Main])[2], ItemsOf(seen[Main])[3], ItemsOf(seen[Main])[1]>>

(***************************************************************************)
(* The tmux server.  Some session is always there (the server exits with   *)
(* its last session); every window has one pane.  tmux lists sessions by   *)
(* name, and the windows of a session by index.                            *)
(***************************************************************************)
SessionOf(sessionId) == CHOOSE s \in sessions : s.sessionId = sessionId
WindowOf(windowId) == CHOOSE w \in windows : w.windowId = windowId

Range(f) == {f[i] : i \in DOMAIN f}
NameRank(name) == CHOOSE i \in 1 .. Len(SessionNames) : SessionNames[i] = name
sessionOrder(s) == NameRank(s.sessionName)
windowOrder(w) ==
  sessionOrder(SessionOf(w.sessionId)) * (MaxWindows + 1) + w.windowIndex
paneOrder(p) == windowOrder(WindowOf(p.windowId))

\* the lowest index no window of the session has
FreeIndex(sessionId) ==
  CHOOSE i \in 0 .. MaxWindows :
    /\ \A w \in windows : w.sessionId = sessionId => w.windowIndex # i
    /\ \A j \in 0 .. (i - 1) :
         \E w \in windows : w.sessionId = sessionId /\ w.windowIndex = j

\* a command changed the server between two calls of resolveBookmark: what
\* the last call returned is not about this server
ServerChanged ==
  /\ result' = NoResult
  /\ queried' = <<>>
  /\ UNCHANGED <<bm, resolvedById>>

\* new-session -d -s name
createSession(name) ==
  /\ nextWindow < MaxWindows
  /\ \A s \in sessions : s.sessionName # name
  /\ LET sid == nextSession + 1
         wid == nextWindow + 1
     IN /\ sessions' = sessions \cup {[sessionId |-> sid, sessionName |-> name]}
        /\ windows' = windows \cup
             {[windowId |-> wid, windowIndex |-> 0,
               windowName |-> DefaultWindowName, sessionId |-> sid]}
        /\ panes' = panes \cup
             {[paneId |-> wid, paneIndex |-> 0, windowId |-> wid,
               sessionId |-> sid, cwd |-> ServerCwd]}
        /\ nextSession' = sid
        /\ nextWindow' = wid
  /\ ServerChanged

\* new-window -t sessionId -n name
createWindow(sessionId, name) ==
  /\ nextWindow < MaxWindows
  /\ \E s \in sessions : s.sessionId = sessionId
  /\ LET wid == nextWindow + 1
     IN /\ windows' = windows \cup
             {[windowId |-> wid, windowIndex |-> FreeIndex(sessionId),
               windowName |-> name, sessionId |-> sessionId]}
        /\ panes' = panes \cup
             {[paneId |-> wid, paneIndex |-> 0, windowId |-> wid,
               sessionId |-> sessionId, cwd |-> ServerCwd]}
        /\ nextWindow' = wid
  /\ UNCHANGED <<sessions, nextSession>>
  /\ ServerChanged

\* rename-session -t sessionId newName
renameSession(sessionId, newName) ==
  /\ \E s \in sessions : s.sessionId = sessionId
  /\ \A s \in sessions : s.sessionName # newName
  /\ sessions' = {IF s.sessionId = sessionId
                    THEN [s EXCEPT !.sessionName = newName] ELSE s : s \in sessions}
  /\ UNCHANGED <<windows, panes, nextSession, nextWindow>>
  /\ ServerChanged

\* rename-window -t windowId newName
renameWindow(windowId, newName) ==
  /\ \E w \in windows : w.windowId = windowId /\ w.windowName # newName
  /\ windows' = {IF w.windowId = windowId
                   THEN [w EXCEPT !.windowName = newName] ELSE w : w \in windows}
  /\ UNCHANGED <<sessions, panes, nextSession, nextWindow>>
  /\ ServerChanged

\* kill-session -t sessionId
killSession(sessionId) ==
  /\ \E s \in sessions : s.sessionId = sessionId
  /\ \E s \in sessions : s.sessionId # sessionId
  /\ sessions' = {s \in sessions : s.sessionId # sessionId}
  /\ windows' = {w \in windows : w.sessionId # sessionId}
  /\ panes' = {p \in panes : p.sessionId # sessionId}
  /\ UNCHANGED <<nextSession, nextWindow>>
  /\ ServerChanged

\* kill-window -t windowId; a session goes with its last window
killWindow(windowId) ==
  /\ \E w \in windows : w.windowId = windowId
  /\ LET left == {w \in windows : w.windowId # windowId}
         alive == {s \in sessions : \E w \in left : w.sessionId = s.sessionId}
     IN /\ alive # {}
        /\ sessions' = alive
        /\ windows' = left
        /\ panes' = {p \in panes : p.windowId # windowId}
  /\ UNCHANGED <<nextSession, nextWindow>>
  /\ ServerChanged

\* send-keys -t paneId "cd dir": the shell of the pane changes its directory
changePaneDirectory(paneId, dir) ==
  /\ \E p \in panes : p.paneId = paneId /\ p.cwd # dir
  /\ panes' = {IF p.paneId = paneId THEN [p EXCEPT !.cwd = dir] ELSE p : p \in panes}
  /\ UNCHANGED <<sessions, windows, nextSession, nextWindow>>
  /\ ServerChanged

(***************************************************************************)
(* TmuxAdapter: every find lists the server anew and takes the first       *)
(* entry, in listing order, that passes the test; null when none does.     *)
(***************************************************************************)
\* the listings: every entry with its place in the output of tmux
listSessions == {<<sessionOrder(s), s>> : s \in sessions}
listWindows == {<<windowOrder(w), w>> : w \in windows}
listPanes == {<<paneOrder(p), p>> : p \in panes}

\* Array.prototype.find(...) ?? null, on the entries that pass the test
first(hits) ==
  IF hits = {} THEN Null
  ELSE Def((CHOOSE h \in hits : \A g \in hits : h[1] <= g[1])[2])

findSessionById(sessionId) ==
  first({h \in listSessions : h[2].sessionId = sessionId})
findWindowById(windowId) ==
  first({h \in listWindows : h[2].windowId = windowId})
findPaneById(paneId) ==
  first({h \in listPanes : h[2].paneId = paneId})
findSessionByName(name) ==
  first({h \in listSessions : h[2].sessionName = name})
\* mutant: the session is not looked at
findWindowByNameAnywhere(sessionId, windowName) ==
  first({h \in listWindows : h[2].windowName = windowName})
findWindowByName(sessionId, windowName) ==
  first({h \in listWindows : /\ h[2].sessionId = sessionId
                            /\ h[2].windowName = windowName})
findWindowByIndex(sessionId, windowIndex) ==
  first({h \in listWindows : /\ h[2].sessionId = sessionId
                            /\ h[2].windowIndex = windowIndex})

(***************************************************************************)
(* The bookmark that is resolved: what cmdAdd records of a pane, its       *)
(* window and its session, or less, as callers of store.add may pass.      *)
(***************************************************************************)
Kinds == {"session", "window", "pane"}

\* the arguments cmdAdd passes to store.add for the current pane p
CmdAddInput(kind, p) ==
  LET w == WindowOf(p.windowId)
      s == SessionOf(p.sessionId)
  IN [label |-> "mark", kind |-> kind,
      target |->
        [sessionId |-> Def(s.sessionId),
         windowId |-> IF kind = "session" THEN Undefined ELSE Def(w.windowId),
         paneId |-> IF kind = "pane" THEN Def(p.paneId) ELSE Undefined],
      fallback |->
        [sessionName |-> Def(s.sessionName), windowIndex |-> Def(w.windowIndex),
         windowName |-> Def(w.windowName), paneIndex |-> Def(p.paneIndex)],
      cwd |-> IF kind = "session" THEN Undefined ELSE Def(p.cwd)]

\* the same arguments without the properties ks
Omit(in, ks) ==
  [in EXCEPT
     !.target = [k \in TargetKeys |-> IF k \in ks THEN Undefined ELSE in.target[k]],
     !.fallback = [k \in FallbackKeys |-> IF k \in ks THEN Undefined ELSE in.fallback[k]],
     !.cwd = IF "cwd" \in ks THEN Undefined ELSE in.cwd]

\* what callers leave out: nothing (cmdAdd), the parent ids, every id, the
\* indexes, a name, the directory
Omits ==
  { {}, {"sessionId"}, {"sessionId", "windowId", "paneId"},
    {"windowIndex", "paneIndex"}, {"windowName"}, {"sessionName"}, {"cwd"} }

\* store.add(...) and, later, store.getBySlot(1): the bookmark as it is read back
addBookmark(kind, paneId, omit) ==
  /\ bm = NoBookmark
  /\ \E p \in panes :
       /\ p.paneId = paneId
       /\ bm' = ParseBookmark(StringifyBookmark(
                  NewBookmark(Main, Omit(CmdAddInput(kind, p), omit), clock, clock)))
  /\ resolvedById' = FALSE
  /\ UNCHANGED <<tmuxVars, result, queried>>

(***************************************************************************)
(* resolveBookmark and its three tiers.  Each returns what the code        *)
(* returns, and with it the adapter queries it made, in order.             *)
(***************************************************************************)
\* mutant: the failure has nothing to say
UnresolvedSilent == [resolved |-> FALSE, reason |-> ""]
Unresolved ==
  [resolved |-> FALSE, reason |-> "Could not resolve bookmark to a valid tmux target"]
Resolved(method, target) == [resolved |-> TRUE, method |-> method, target |-> target]

\* the property of target that tryResolveById looks up for a kind
IdKey(kind) ==
  CASE kind = "session" -> "sessionId"
    [] kind = "window" -> "windowId"
    [] kind = "pane" -> "paneId"

\* mutant: the ids the bookmark has stored
IdTargetStored(b, e) == b.target
\* the TmuxTarget tryResolveById builds from the entity e it found
IdTarget(b, e) ==
  CASE b.kind = "session" -> [NoTarget EXCEPT !.sessionId = Def(e.sessionId)]
    [] b.kind = "window" ->
         [NoTarget EXCEPT !.sessionId = Def(e.sessionId), !.windowId = Def(e.windowId)]
    [] b.kind = "pane" ->
         [sessionId |-> Def(e.sessionId), windowId |-> Def(e.windowId),
          paneId |-> Def(e.paneId)]

\* mutant: the tier also wants the ids of the parents to be stored
tryResolveByIdParents(b) ==
  LET id == b.target[IdKey(b.kind)]
      hit == CASE b.kind = "session" -> findSessionById(id[1])
               [] b.kind = "window" -> findWindowById(id[1])
               [] b.kind = "pane" -> findPaneById(id[1])
      call == CASE b.kind = "session" -> "findSessionById"
                [] b.kind = "window" -> "findWindowById"
                [] b.kind = "pane" -> "findPaneById"
  IN IF id = Undefined \/ b.target.sessionId = Undefined
       THEN [ret |-> Null, calls |-> <<>>]
       ELSE [ret |-> IF hit = Null THEN Null ELSE Def(IdTarget(b, hit[1])),
             calls |-> <<call>>]
\* mutant: the tier is left out
tryResolveByIdNever(b) == [ret |-> Null, calls |-> <<>>]
tryResolveById(b) ==
  LET id == b.target[IdKey(b.kind)]
  IN IF id = Undefined
       THEN [ret |-> Null, calls |-> <<>>]
       ELSE LET hit == CASE b.kind = "session" -> findSessionById(id[1])
                         [] b.kind = "window" -> findWindowById(id[1])
                         [] b.kind = "pane" -> findPaneById(id[1])
                call == CASE b.kind = "session" -> "findSessionById"
                          [] b.kind = "window" -> "findWindowById"
                          [] b.kind = "pane" -> "findPaneById"
            IN [ret |-> IF hit = Null THEN Null ELSE Def(IdTarget(b, hit[1])),
                calls |-> <<call>>]

\* mutant: the window is looked up by its index first, then by its name
tryResolveByFallbackIndexFirst(b) ==
  LET fallback == b.fallback
      bySessionName == Truthy(fallback.sessionName)
      session == IF bySessionName
                   THEN findSessionByName(fallback.sessionName[1]) ELSE Null
      calls1 == IF bySessionName THEN <<"findSessionByName">> ELSE <<>>
  IN IF session = Null THEN [ret |-> Null, calls |-> calls1]
     ELSE IF b.kind = "session"
       THEN [ret |-> Def([NoTarget EXCEPT !.sessionId = Def(session[1].sessionId)]),
             calls |-> calls1]
     ELSE
       LET byIndex == fallback.windowIndex # Undefined
           indexed == IF byIndex
                        THEN findWindowByIndex(session[1].sessionId, fallback.windowIndex[1])
                        ELSE Null
           byName == indexed = Null /\ Truthy(fallback.windowName)
           window == IF byName
                       THEN findWindowByName(session[1].sessionId, fallback.windowName[1])
                       ELSE indexed
           calls2 == (IF byIndex THEN <<"findWindowByIndex">> ELSE <<>>)
                       \o (IF byName THEN <<"findWindowByName">> ELSE <<>>)
       IN [ret |-> IF window = Null THEN Null
                   ELSE Def([NoTarget EXCEPT
                               !.sessionId = Def(session[1].sessionId),
                               !.windowId = Def(window[1].windowId)]),
           calls |-> calls1 \o calls2]
\* mutant: for a pane bookmark a pane of the window found is added to the target
tryResolveByFallbackToPane(b) ==
  LET r == tryResolveByFallbackIndexFirst(b)
  IN IF b.kind # "pane" \/ r.ret = Null THEN r
     ELSE LET inWindow == {h \in listPanes : Def(h[2].windowId) = r.ret[1].windowId}
          IN [ret |-> Def([r.ret[1] EXCEPT !.paneId = Def(first(inWindow)[1].paneId)]),
              calls |-> r.calls \o <<"listPanes">>]
\* mutant: without a window the session that was found is returned
tryResolveByFallbackSessionOnly(b) ==
  LET r == tryResolveByFallbackIndexFirst(b)
      session == IF Truthy(b.fallback.sessionName)
                   THEN findSessionByName(b.fallback.sessionName[1]) ELSE Null
  IN IF r.ret = Null /\ session # Null
       THEN [ret |-> Def([NoTarget EXCEPT !.sessionId = Def(session[1].sessionId)]),
             calls |-> r.calls]
       ELSE r
\* mutant: the tier is left out
tryResolveByFallbackNever(b) == [ret |-> Null, calls |-> <<>>]
tryResolveByFallback(b) ==
  LET fallback == b.fallback
      bySessionName == Truthy(fallback.sessionName)
      session == IF bySessionName
                   THEN findSessionByName(fallback.sessionName[1]) ELSE Null
      calls1 == IF bySessionName THEN <<"findSessionByName">> ELSE <<>>
  IN IF session = Null THEN [ret |-> Null, calls |-> calls1]
     ELSE IF b.kind = "session"
       THEN [ret |-> Def([NoTarget EXCEPT !.sessionId = Def(session[1].sessionId)]),
             calls |-> calls1]
     ELSE
       LET byName == Truthy(fallback.windowName)
           named == IF byName
                      THEN findWindowByName(session[1].sessionId, fallback.windowName[1])
                      ELSE Null
           byIndex == named = Null /\ fallback.windowIndex # Undefined
           window == IF byIndex
                       THEN findWindowByIndex(session[1].sessionId, fallback.windowIndex[1])
                       ELSE named
           calls2 == (IF byName THEN <<"findWindowByName">> ELSE <<>>)
                       \o (IF byIndex THEN <<"findWindowByIndex">> ELSE <<>>)
       IN [ret |-> IF window = Null THEN Null
                   ELSE Def([NoTarget EXCEPT
                               !.sessionId = Def(session[1].sessionId),
                               !.windowId = Def(window[1].windowId)]),
           calls |-> calls1 \o calls2]

\* mutant: the last pane of the listing that matches is taken
tryResolveByCwdLast(cwd) ==
  LET hits == {h \in listPanes : h[2].cwd = cwd}
      match == IF hits = {} THEN Null
               ELSE Def((CHOOSE h \in hits : \A g \in hits : g[1] <= h[1])[2])
  IN [ret |-> IF match = Null THEN Null
              ELSE Def([sessionId |-> Def(match[1].sessionId),
                        windowId |-> Def(match[1].windowId),
                        paneId |-> Def(match[1].paneId)]),
      calls |-> <<"listPanes">>]

\* mutant: the pane that is found is selected on the way
tryResolveByCwdSelecting(cwd) ==
  LET hits == {h \in listPanes : h[2].cwd = cwd}
      match == IF hits = {} THEN Null
               ELSE Def((CHOOSE h \in hits : \A g \in hits : h[1] <= g[1])[2])
  IN [ret |-> IF match = Null THEN Null
              ELSE Def([sessionId |-> Def(match[1].sessionId),
                        windowId |-> Def(match[1].windowId),
                        paneId |-> Def(match[1].paneId)]),
      calls |-> IF match = Null THEN <<"listPanes">> ELSE <<"listPanes", "selectPane">>]
tryResolveByCwd(cwd) ==
  LET match == first({h \in listPanes : h[2].cwd = cwd})
  IN [ret |-> IF match = Null THEN Null
              ELSE Def([sessionId |-> Def(match[1].sessionId),
                        windowId |-> Def(match[1].windowId),
                        paneId |-> Def(match[1].paneId)]),
      calls |-> <<"listPanes">>]

resolveBookmark(bookmark) ==
  LET idResult == tryResolveById(bookmark)
      fallbackResult == tryResolveByFallback(bookmark)
      cwdResult == tryResolveByCwd(bookmark.meta.cwd[1])
  IN IF idResult.ret # Null
       THEN [result |-> Resolved("id", idResult.ret[1]), calls |-> idResult.calls]
     ELSE IF fallbackResult.ret # Null
       THEN [result |-> Resolved("fallback", fallbackResult.ret[1]),
             calls |-> idResult.calls \o fallbackResult.calls]
     ELSE IF Truthy(bookmark.meta.cwd) /\ cwdResult.ret # Null
       THEN [result |-> Resolved("cwd", cwdResult.ret[1]),
             calls |-> idResult.calls \o fallbackResult.calls \o cwdResult.calls]
     ELSE [result |-> Unresolved,
           calls |-> idResult.calls \o fallbackResult.calls
                       \o (IF Truthy(bookmark.meta.cwd) THEN cwdResult.calls ELSE <<>>)]

\* a caller resolves bm on the server as it is
Resolve ==
  /\ bm # NoBookmark
  /\ result = NoResult
  /\ LET r == resolveBookmark(bm)
     IN /\ result' = r.result
        /\ queried' = r.calls
        /\ resolvedById' = (resolvedById \/ (r.result.resolved /\ r.result.method = "id"))
  /\ UNCHANGED <<tmuxVars, bm>>

(***************************************************************************)
(* SpecResolve: a bookmark is taken of the server, the server changes, and *)
(* resolveBookmark runs against it, any number of times.                   *)
(***************************************************************************)
SessionIds == 1 .. MaxWindows
WindowIds == 1 .. MaxWindows

NextResolve ==
  \/ \E name \in Range(SessionNames) : createSession(name) /\ UNCHANGED <<storeVars, jumpVars, adapterVars, pickerVars>>
  \/ \E sid \in SessionIds, name \in WindowNames :
       createWindow(sid, name) /\ UNCHANGED <<storeVars, jumpVars, adapterVars, pickerVars>>
  \/ \E sid \in SessionIds, name \in Range(SessionNames) :
       renameSession(sid, name) /\ UNCHANGED <<storeVars, jumpVars, adapterVars, pickerVars>>
  \/ \E wid \in WindowIds, name \in WindowNames :
       renameWindow(wid, name) /\ UNCHANGED <<storeVars, jumpVars, adapterVars, pickerVars>>
  \/ \E sid \in SessionIds : killSession(sid) /\ UNCHANGED <<storeVars, jumpVars, adapterVars, pickerVars>>
  \/ \E wid \in WindowIds : killWindow(wid) /\ UNCHANGED <<storeVars, jumpVars, adapterVars, pickerVars>>
  \/ \E pid \in WindowIds, dir \in Cwds :
       changePaneDirectory(pid, dir) /\ UNCHANGED <<storeVars, jumpVars, adapterVars, pickerVars>>
  \/ \E kind \in Kinds, pid \in WindowIds, omit \in Omits :
       addBookmark(kind, pid, omit) /\ UNCHANGED <<storeVars, jumpVars, adapterVars, pickerVars>>
  \/ Resolve /\ UNCHANGED <<storeVars, jumpVars, adapterVars, pickerVars>>

SpecResolve == Init /\ [][NextResolve]_vars

(***************************************************************************)
(* What the resolver claims speak of, said of the server as it is.         *)
(***************************************************************************)
Done == result # NoResult
MethodOf(r) == IF r.resolved THEN r.method ELSE "none"

\* an optional string is set: it is there / it is there and not empty
Present(x) == x # Undefined
NonEmpty(x) == x # Undefined /\ x[1] # ""

EntitiesOf(kind) ==
  CASE kind = "session" -> sessions
    [] kind = "window" -> windows
    [] kind = "pane" -> panes

\* the stable id of the bookmark's kind is stored and some live entity has it
IdLive(b) ==
  /\ b.target[IdKey(b.kind)] # Undefined
  /\ \E e \in EntitiesOf(b.kind) : e[IdKey(b.kind)] = b.target[IdKey(b.kind)][1]

\* the sessions that have the fallback session name
Named(b, IsSet(_)) ==
  IF IsSet(b.fallback.sessionName)
    THEN {s \in sessions : s.sessionName = b.fallback.sessionName[1]}
    ELSE {}

\* the windows of session s that have the fallback window name
NamedWindows(b, s, IsSet(_)) ==
  IF IsSet(b.fallback.windowName)
    THEN {w \in windows : /\ w.sessionId = s.sessionId
                          /\ w.windowName = b.fallback.windowName[1]}
    ELSE {}

\* the windows of session s that have the fallback window index
IndexedWindows(b, s) ==
  IF b.fallback.windowIndex # Undefined
    THEN {w \in windows : /\ w.sessionId = s.sessionId
                          /\ w.windowIndex = b.fallback.windowIndex[1]}
    ELSE {}

\* the fallback names match a live entity: the session name a session and,
\* for a bookmark of a window or a pane, the window name a window of it
NamesMatch(b, IsSet(_)) ==
  \E s \in Named(b, IsSet) :
    b.kind = "session" \/ NamedWindows(b, s, IsSet) # {}

\* the fallback tier as it is specified: names first, then the window index
FallbackMatch(b, IsSet(_)) ==
  \E s \in Named(b, IsSet) :
    \/ b.kind = "session"
    \/ NamedWindows(b, s, IsSet) # {}
    \/ IndexedWindows(b, s) # {}

\* meta.cwd is set and a pane is in that directory
CwdMatch(b, IsSet(_)) ==
  /\ IsSet(b.meta.cwd)
  /\ \E p \in panes : p.cwd = b.meta.cwd[1]

TierOf(call) ==
  CASE call \in {"findSessionById", "findWindowById", "findPaneById"} -> 1
    [] call \in {"findSessionByName", "findWindowByName", "findWindowByIndex"} -> 2
    [] call = "listPanes" -> 3

TierOfMethod(m) ==
  CASE m = "id" -> 1 [] m = "fallback" -> 2 [] OTHER -> 3

\* the order of the tiers, for a reading IsSet of "is set"
TierOrder(IsSet(_)) ==
  Done =>
    LET m == MethodOf(result)
        i == IdLive(bm)
        f == FallbackMatch(bm, IsSet)
        c == CwdMatch(bm, IsSet)
    IN /\ (m = "id") = i
       /\ (m = "fallback") = (~i /\ f)
       /\ (m = "cwd") = (~i /\ ~f /\ c)
       /\ \A j \in 1 .. Len(queried) :
            /\ TierOf(queried[j]) <= TierOfMethod(m)
            /\ \A k \in 1 .. j : TierOf(queried[k]) <= TierOf(queried[j])

\* the target of a fallback resolution carries the real ids of a live
\* entity that has the fallback names
FallbackTargetReal(b, IsSet(_)) ==
  \E s \in Named(b, IsSet) :
    IF b.kind = "session"
      THEN result.target = [NoTarget EXCEPT !.sessionId = Def(s.sessionId)]
      ELSE \E w \in NamedWindows(b, s, IsSet) :
             result.target = [NoTarget EXCEPT !.sessionId = Def(s.sessionId),
                                              !.windowId = Def(w.windowId)]

\* the ids of the live entity that has the stored stable id, and of its parents
ExactTarget(b) ==
  LET e == CHOOSE x \in EntitiesOf(b.kind) :
             x[IdKey(b.kind)] = b.target[IdKey(b.kind)][1]
  IN CASE b.kind = "session" -> [NoTarget EXCEPT !.sessionId = Def(e.sessionId)]
       [] b.kind = "window" ->
            [NoTarget EXCEPT !.sessionId = Def(WindowOf(e.windowId).sessionId),
                             !.windowId = Def(e.windowId)]
       [] b.kind = "pane" ->
            [sessionId |-> Def(WindowOf(e.windowId).sessionId),
             windowId |-> Def(e.windowId), paneId |-> Def(e.paneId)]

(***************************************************************************)
(* C3.  resolveBookmark tries the tiers in the order id, fallback, cwd and *)
(* the method of its result is the tier that resolved: "id" exactly when   *)
(* the id tier succeeds, "fallback" exactly when the id tier fails and the *)
(* fallback tier succeeds, "cwd" exactly when both fail, meta.cwd is set   *)
(* and a pane matches; no tier is queried after an earlier one succeeded.  *)
(* As stated, with "set" read as "stored":                                 *)
(***************************************************************************)
C3_TierOrder == TierOrder(Present)

(***************************************************************************)
(* C3, amended.  The same with "set" read as "stored and not the empty     *)
(* string", for meta.cwd and for the fallback names: the code tests them   *)
(* for truthiness.                                                         *)
(***************************************************************************)
C3_TierOrderNonEmpty == TierOrder(NonEmpty)

\* the id tier and the fallback tier were queried and failed, and the cwd
\* tier resolved
C3_Witness ==
  /\ Done
  /\ MethodOf(result) = "cwd"
  /\ \E j \in 1 .. Len(queried) : TierOf(queried[j]) = 1
  /\ \E j \in 1 .. Len(queried) : TierOf(queried[j]) = 2

(***************************************************************************)
(* C4.  For a bookmark whose stable id of its kind is the id of a live     *)
(* entity, resolveBookmark returns resolved = true with method "id" and a  *)
(* target of that entity's id and the current ids of its parents, whatever *)
(* was renamed and whatever else has the stored names.                     *)
(***************************************************************************)
C4_IdWins ==
  (Done /\ IdLive(bm)) =>
    /\ result = Resolved("id", ExactTarget(bm))
    /\ \E s \in sessions : result.target.sessionId = Def(s.sessionId)

\* a window bookmark stored without its session id resolves by id after its
\* window and its session were renamed and another window has the stored name
C4_Witness ==
  /\ Done
  /\ bm.kind = "window"
  /\ IdLive(bm)
  /\ bm.target.sessionId = Undefined
  /\ MethodOf(result) = "id"
  /\ LET w == WindowOf(bm.target.windowId[1])
     IN /\ Def(w.windowName) # bm.fallback.windowName
        /\ Def(SessionOf(w.sessionId).sessionName) # bm.fallback.sessionName
        /\ \E v \in windows : v # w /\ Def(v.windowName) = bm.fallback.windowName

(***************************************************************************)
(* C5.  For a bookmark whose stable id matches no live entity and whose    *)
(* fallback session name (and, for a window bookmark, window name) matches *)
(* a live entity, resolveBookmark returns resolved = true with method      *)
(* "fallback" and a target of the real ids of that entity.  As stated:     *)
(***************************************************************************)
C5_FallbackByName ==
  (Done /\ ~IdLive(bm) /\ NamesMatch(bm, Present)) =>
    /\ MethodOf(result) = "fallback"
    /\ FallbackTargetReal(bm, Present)

(***************************************************************************)
(* C5, amended.  The same for fallback names that are not the empty        *)
(* string.                                                                 *)
(***************************************************************************)
C5_FallbackByNonEmptyName ==
  (Done /\ ~IdLive(bm) /\ NamesMatch(bm, NonEmpty)) =>
    /\ MethodOf(result) = "fallback"
    /\ FallbackTargetReal(bm, NonEmpty)

\* the window of a window bookmark is gone, another window of the session
\* has its name, and the bookmark resolves to that window
C5_Witness ==
  /\ Done
  /\ bm.kind = "window"
  /\ bm.target.windowId # Undefined
  /\ ~IdLive(bm)
  /\ NamesMatch(bm, NonEmpty)
  /\ MethodOf(result) = "fallback"
  /\ result.target.windowId # bm.target.windowId

C11_ReplaceInPlace ==
  (Finished(Main) /\ op[Main].name = "replace" /\ op[Main].slot >= 1) =>
     LET old == ItemsOf(seen[Main])
         new == ItemsOf(file)
         slot == op[Main].slot
     IN /\ ret[Main].t = "bookmark"
        /\ Len(new) = Len(old)
        /\ slot <= Len(new)
        /\ new[slot] = StringifyBookmark(ret[Main].v)
        /\ \A i \in 1 .. Len(old) : i # slot => new[i] = old[i]

(***************************************************************************)
(* C12.  In every state the ids of the stored bookmarks are pairwise       *)
(* distinct; every id that add or replace returns differs from every id    *)
(* issued before, also for adds running in parallel; and a stored          *)
(* bookmark keeps the id it was built with: rename, touch, move and the    *)
(* adding or removing of other bookmarks change at most its label, its     *)
(* lastUsed and its slot.                                                  *)
(***************************************************************************)
Distinct(s) == \A i, j \in 1 .. Len(s) : i # j => s[i].id # s[j].id
\* the text t is the bookmark b as it was built, but for label and lastUsed
SameBookmark(t, b) ==
  t = [StringifyBookmark(b) EXCEPT !.label = t.label,
                                   !.meta = [@ EXCEPT !.lastUsed = t.meta.lastUsed]]

C12_IdsDistinct ==
  /\ Distinct(ItemsOf(file))
  /\ Distinct(issued)
  /\ \A i \in 1 .. Len(ItemsOf(file)) :
       \E k \in 1 .. Len(issued) :
         /\ issued[k].id = ItemsOf(file)[i].id
         /\ SameBookmark(ItemsOf(file)[i], issued[k])
  /\ \A p \in Procs :
       (Finished(p) /\ op[p].name \in {"add", "replace"} /\ ret[p].t = "bookmark") =>
          /\ \E k \in 1 .. Len(issued) : issued[k] = ret[p].v
          /\ \A q \in Procs \ {p} :
               (pc[q] # "idle" /\ "bookmark" \in DOMAIN op[q]) =>
                  op[q].bookmark.id # ret[p].v.id

\* two adds that read the same file have both returned, and the file holds a
\* bookmark that was renamed after it was built
C12_Witness ==
  /\ Finished(Main) /\ op[Main].name = "add" /\ ret[Main].t = "bookmark"
  /\ Finished(Other) /\ op[Other].name = "add" /\ ret[Other].t = "bookmark"
  /\ seen[Main] = seen[Other]
  /\ \E i \in 1 .. Len(ItemsOf(file)) :
       \E k \in 1 .. Len(issued) :
         /\ issued[k].id = ItemsOf(file)[i].id
         /\ issued[k].label # ItemsOf(file)[i].label

(***************************************************************************)
(* C13.  replace on an occupied slot discards the old bookmark entirely:   *)
(* the returned bookmark has an id no stored bookmark had, lastUsed and    *)
(* createdAt are the time of the call (createdAt possibly the second after *)
(* it), the entry at the slot is made of the call's arguments alone        *)
(* (label, kind, target, fallback, cwd), and get(oldId) finds nothing      *)
(* afterwards.                                                             *)
(***************************************************************************)
Occupied(p) ==
  /\ Finished(p) /\ op[p].name = "replace"
  /\ op[p].slot >= 1 /\ op[p].slot <= Len(ItemsOf(seen[p]))

C13_ReplaceDiscards ==
  Occupied(Main) =>
     LET old == ItemsOf(seen[Main])
         new == ItemsOf(file)
         slot == op[Main].slot
         in == op[Main].in
         b == ret[Main].v
     IN /\ ret[Main].t = "bookmark"
        /\ b.id \notin IdsIn(old)
        /\ \A k \in 1 .. (Len(issued) - 1) : issued[k].id # b.id
        /\ b.meta.lastUsed = op[Main].at
        /\ b.meta.createdAt \in {op[Main].at, op[Main].at + 1}
        /\ b.label = in.label /\ b.kind = in.kind
        /\ b.target = in.target /\ b.fallback = in.fallback
        /\ b.meta.cwd = in.cwd /\ b.meta.host = EnvHost(Main)
        /\ new[slot] = StringifyBookmark(b)
        /\ old[slot].id \notin IdsIn(new)
        /\ findIndexById(JSONparse(file).items, old[slot].id) = -1

\* the replaced entry was built in an earlier second, under the other label
C13_Witness ==
  /\ Occupied(Main)
  /\ ret[Main].t = "bookmark"
  /\ ItemsOf(seen[Main])[op[Main].slot].meta.createdAt < ret[Main].v.meta.createdAt
  /\ ItemsOf(seen[Main])[op[Main].slot].label # ret[Main].v.label
  /\ Len(ItemsOf(file)) = 2

(***************************************************************************)
(* C14.  rename(id, newLabel) on a present id returns true and changes     *)
(* only that bookmark's label: its id, slot, kind, target, fallback and    *)
(* meta, every other bookmark and the order of the sequence are unchanged. *)
(***************************************************************************)
C14_RenameOnlyLabel ==
  (Finished(Main) /\ op[Main].name = "rename" /\ op[Main].id \in IdsIn(ItemsOf(seen[Main]))) =>
     LET old == ItemsOf(seen[Main])
         new == ItemsOf(file)
         k == SlotOfId(old, op[Main].id)
     IN /\ ret[Main] = RetBool(TRUE)
        /\ Len(new) = Len(old)
        /\ new[k] = [old[k] EXCEPT !.label = op[Main].label]
        /\ \A i \in 1 .. Len(old) : i # k => new[i] = old[i]

\* the second of three bookmarks got another label than it had
C14_Witness ==
  /\ Finished(Main) /\ op[Main].name = "rename"
  /\ Len(ItemsOf(seen[Main])) = 3
  /\ ItemsOf(seen[Main])[2].id = op[Main].id
  /\ ItemsOf(seen[Main])[2].label # op[Main].label
  /\ ItemsOf(file)[2].label = op[Main].label

(***************************************************************************)
(* C15.  touch(id) on a present id changes only meta.lastUsed of that      *)
(* bookmark, to a value that is not smaller than the one it had (the clock *)
(* does not go backwards); label, id, slot, target, fallback, createdAt    *)
(* and all other bookmarks are unchanged.                                  *)
(***************************************************************************)
C15_TouchOnlyLastUsed ==
  (Finished(Main) /\ op[Main].name = "touch" /\ op[Main].id \in IdsIn(ItemsOf(seen[Main]))) =>
     LET old == ItemsOf(seen[Main])
         new == ItemsOf(file)
         k == SlotOfId(old, op[Main].id)
     IN /\ ret[Main] = RetVoid
        /\ Len(new) = Len(old)
        /\ new[k] = [old[k] EXCEPT !.meta = [@ EXCEPT !.lastUsed = new[k].meta.lastUsed]]
        /\ new[k].meta.lastUsed >= old[k].meta.lastUsed
        /\ new[k].meta.lastUsed <= clock
        /\ \A i \in 1 .. Len(old) : i # k => new[i] = old[i]

\* the first of two bookmarks was touched a second after it was last used
C15_Witness ==
  /\ Finished(Main) /\ op[Main].name = "touch"
  /\ Len(ItemsOf(seen[Main])) = 2
  /\ ItemsOf(seen[Main])[1].id = op[Main].id
  /\ ItemsOf(seen[Main])[1].meta.lastUsed < ItemsOf(file)[1].meta.lastUsed

(***************************************************************************)
(* C16.  A store operation addressed to an absent id, an absent label or   *)
(* an out-of-range slot reports not-found as a value and never raises:     *)
(* get, getByLabel and getBySlot return null, remove, removeBySlot, rename *)
(* and move return false, touch returns silently, replace with a slot      *)
(* below 1 returns null; no write happens and the file is left as it was.  *)
(* (The file is absent, cut off or an envelope; C18 is about other texts.) *)
(***************************************************************************)
OutOfRange(slot, items) == slot < 1 \/ slot > Len(items)
\* the call o finds nothing in items
NotFound(o, items) ==
  CASE o.name \in {"get", "remove", "rename", "touch"} -> o.id \notin IdsIn(items)
    [] o.name = "getByLabel" -> \A i \in 1 .. Len(items) : items[i].label # o.label
    [] o.name \in {"getBySlot", "removeBySlot"} -> OutOfRange(o.slot, items)
    [] o.name = "move" -> OutOfRange(o.fromSlot, items) \/ OutOfRange(o.toSlot, items)
    [] o.name = "replace" -> o.slot <= 0
    [] OTHER -> FALSE
NotFoundValue(o) ==
  CASE o.name \in {"get", "getByLabel", "getBySlot", "replace"} -> RetNull
    [] o.name = "touch" -> RetVoid
    [] OTHER -> RetBool(FALSE)

Missing(p) == Finished(p) /\ ~seen[p].exists

C17_MissingFile ==
  /\ read(Absent) = EmptyEnvelope
  /\ ~Unreadable(Absent)
  /\ Missing(Main) =>
       /\ ret[Main].t # "throw"
       /\ op[Main].name = "list" => ret[Main] = RetList(<<>>)
       /\ op[Main].name \in {"list", "get", "getByLabel", "getBySlot"} =>
            (~wrote[Main] /\ file = Absent /\ \A q \in TempPaths : tmp[q] = Absent)
       /\ ret[Main].t = "bookmark" =>
            /\ wrote[Main]
            /\ file = JSONstringify([EmptyEnvelope EXCEPT !.items = <<ret[Main].v>>])
       /\ wrote[Main] <=> file.exists

\* an add that found no file has returned, and the file is there
C17_Witness ==
  /\ Missing(Main) /\ op[Main].name = "add"
  /\ file.exists /\ file.complete /\ Len(file.items) = 1

(***************************************************************************)
(* C18.  When the file exists but its contents are corrupted or cannot be  *)
(* decoded into an envelope (cut-off text, invalid JSON, or valid JSON     *)
(* that is not a {version, items} object), every read operation behaves as *)
(* if the file did not exist: read returns the empty envelope, list the    *)
(* empty sequence, get, getByLabel and getBySlot null, and none raises.    *)
(***************************************************************************)
Corrupted(f) ==
  f.exists /\ (~f.complete \/ "version" \notin DOMAIN f \/ "items" \notin DOMAIN f)
ReadOperations == {"list", "get", "getByLabel", "getBySlot"}

C18_CorruptedAsMissing ==
  (Finished(Main) /\ op[Main].name \in ReadOperations /\ Corrupted(seen[Main])) =>
     /\ ~Unreadable(seen[Main])
     /\ read(seen[Main]) = EmptyEnvelope
     /\ ret[Main] = (IF op[Main].name = "list" THEN RetList(<<>>) ELSE RetNull)

\* the same for a text that is cut off or is not JSON at all
C18_CutOffAsMissing ==
  (Finished(Main) /\ op[Main].name \in ReadOperations
     /\ seen[Main].exists /\ ~seen[Main].complete) =>
     /\ ~Unreadable(seen[Main])
     /\ read(seen[Main]) = EmptyEnvelope
     /\ ret[Main] = (IF op[Main].name = "list" THEN RetList(<<>>) ELSE RetNull)

\* get has met the text null and has raised
C18_Raised ==
  /\ Finished(Main) /\ op[Main].name = "get"
  /\ seen[Main] = NullText
  /\ ret[Main] = RetThrow("TypeError")

(***************************************************************************)
(* C19.  A file whose version is greater than the current schema version   *)
(* is rejected: a call that reads it fails with an error, its items are    *)
(* not returned as if current, and the file is not rewritten (so never     *)
(* with a lower version number than it had).                               *)
(***************************************************************************)
Future(f) ==
  /\ f.exists /\ f.complete
  /\ "version" \in DOMAIN f /\ f.version > CURRENT_SCHEMA_VERSION

C19_FutureRejected ==
  (Finished(Main) /\ Future(seen[Main])) =>
     /\ ret[Main].t = "throw"
     /\ file = seen[Main]

\* an add has read a file of the next version and has written it back as current
C19_Downgraded ==
  /\ Finished(Main) /\ op[Main].name = "add"
  /\ Future(seen[Main])
  /\ ret[Main].t = "bookmark"
  /\ file.exists /\ file.complete /\ file.version = CURRENT_SCHEMA_VERSION
  /\ Len(file.items) = 2

(***************************************************************************)
(* C20.  migrate is total on every envelope with version <= current: for   *)
(* version = current it returns its input unchanged, and for version <     *)
(* current it returns an envelope of the current version whose items are   *)
(* the same bookmarks in the same order; read and list hand these out.     *)
(***************************************************************************)
NotNewer(f) ==
  /\ f.exists /\ f.complete
  /\ "version" \in DOMAIN f /\ "items" \in DOMAIN f
  /\ f.version <= CURRENT_SCHEMA_VERSION

C20_MigrateKeepsItems ==
  /\ NotNewer(file) =>
       LET d == JSONparse(file)
       IN /\ DOMAIN migrate(d) = {"version", "items"}
          /\ migrate(d).version = CURRENT_SCHEMA_VERSION
          /\ migrate(d).items = d.items
          /\ d.version = CURRENT_SCHEMA_VERSION => migrate(d) = d
          /\ read(file) = migrate(d)
  /\ (Finished(Main) /\ op[Main].name = "list" /\ NotNewer(seen[Main])) =>
       ret[Main] = RetList(JSONparse(seen[Main]).items)

\* list has read an envelope of the older version with a bookmark in it
C20_Witness ==
  /\ Finished(Main) /\ op[Main].name = "list"
  /\ NotNewer(seen[Main])
  /\ seen[Main].version < CURRENT_SCHEMA_VERSION
  /\ ret[Main].t = "list" /\ Len(ret[Main].v) = 1

(***************************************************************************)
(* C21.  Round trip: the bookmark add returned is equal, field by field    *)
(* (createdAt and lastUsed included), to the one a following list holds at *)
(* the last slot and to the one get(id) returns, as long as the bookmark   *)
(* is still the last entry of the envelope written last.                   *)
(***************************************************************************)
\* the bookmark the last add returned
Newest == issued[Len(issued)]
NewestIsLast ==
  /\ issued # <<>>
  /\ file = JSONstringify(lastWritten)
  /\ lastWritten.items # <<>>
  /\ lastWritten.items[Len(lastWritten.items)].id = Newest.id

C21_RoundTrip ==
  (Finished(Main) /\ NewestIsLast /\ seen[Main] = file) =>
     /\ op[Main].name = "list" =>
          /\ ret[Main].t = "list"
          /\ ret[Main].v # <<>>
          /\ ret[Main].v[Len(ret[Main].v)] = Newest
     /\ (op[Main].name = "get" /\ op[Main].id = Newest.id) =>
          ret[Main] = RetBookmark(Newest)

\* get returns the second bookmark, which has a cwd and a window target
C21_Witness ==
  /\ Finished(Main) /\ NewestIsLast /\ seen[Main] = file
  /\ op[Main].name = "get" /\ op[Main].id = Newest.id
  /\ Len(file.items) = 2
  /\ Newest.meta.cwd # Undefined
  /\ ret[Main].t = "bookmark"

(***************************************************************************)
(* C22.  A store instance keeps no cached copy of the file: once a         *)
(* mutating call has completed on any instance, the next read by any       *)
(* instance on the same path observes it: list returns the items of the    *)
(* envelope whose write completed last, whichever process wrote it.        *)
(***************************************************************************)
C22_NoCache ==
  \A p \in Procs :
    (/\ Finished(p) /\ op[p].name = "list"
     /\ lastRenamer # "nobody"
     /\ seen[p] = file) =>
       ret[p] = RetList(lastWritten.items)

\* a process lists the two bookmarks that the other process wrote last
C22_Witness ==
  /\ Finished(Main) /\ op[Main].name = "list"
  /\ lastRenamer = Other
  /\ seen[Main] = file
  /\ ret[Main].t = "list" /\ Len(ret[Main].v) = 2
  /\ pc[Other] = "idle"

(***************************************************************************)
(* C23.  If a mutating call is cut short by a crash of its process at any  *)
(* point before its rename completes, the file at the store path still     *)
(* holds the previous complete envelope (or is still absent), and a later  *)
(* read returns exactly the state before the call.                         *)
(***************************************************************************)
InWrite(p) == pc[p] \in {"write", "writing", "rename", "crashed"}

C23_CrashKeepsFile ==
  InWrite(Main) =>
     /\ file = seen[Main]
     /\ file.exists => file.complete
     /\ (Finished(Other) /\ op[Other].name = "list" /\ seen[Other] = file) =>
          ret[Other] = RetList(read(seen[Main]).items)

\* the process died with half of the text in its temporary file, and the other
\* process has listed the two bookmarks that were there before
C23_Witness ==
  /\ pc[Main] = "crashed"
  /\ tmp[TempPath(Main)].exists /\ ~tmp[TempPath(Main)].complete
  /\ Len(tmp[TempPath(Main)].items) = 3
  /\ Finished(Other) /\ op[Other].name = "list" /\ seen[Other] = file
  /\ ret[Other].t = "list" /\ Len(ret[Other].v) = 2

AfterRapid ==
  /\ \A p \in Rapid : pc[p] \in {"idle", "done"}
  /\ issued # <<>>

C25_RapidAdds ==
  /\ \A p \in Rapid :
       (Finished(p) /\ op[p].name = "add") => ret[p].t = "bookmark"
  /\ AfterRapid =>
       /\ file.exists /\ file.complete
       /\ file.version = CURRENT_SCHEMA_VERSION
       /\ \E i \in 1 .. Len(file.items) :
            \E k \in 1 .. Len(issued) : file.items[i] = StringifyBookmark(issued[k])

\* the second of two concurrent adds has rejected: the temporary file it wrote
\* was renamed by the first
C25_Rejected ==
  /\ Finished(Main) /\ op[Main].name = "add" /\ ret[Main].t = "bookmark"
  /\ Finished(Sibling) /\ op[Sibling].name = "add"
  /\ ret[Sibling].t = "throw" /\ ret[Sibling].v = "ENOENT"
  /\ seen[Main] = seen[Sibling]

(***************************************************************************)
(* C26.  When several stored bookmarks share a label, getByLabel(label)    *)
(* returns the one that is last in the sequence (last match wins); when    *)
(* none has the label it returns null.                                     *)
(***************************************************************************)
\* the slots of the entries with this label
SlotsOfLabel(s, label) == {i \in 1 .. Len(s) : s[i].label = label}
Last(S) == CHOOSE i \in S : \A j \in S : j <= i
First(S) == CHOOSE i \in S : \A j \in S : i <= j

C26_LastMatchWins ==
  (Finished(Main) /\ op[Main].name = "getByLabel") =>
     LET items == read(seen[Main]).items
         hits == SlotsOfLabel(items, op[Main].label)
     IN IF hits = {}
          THEN ret[Main] = RetNull
          ELSE ret[Main] = RetBookmark(items[Last(hits)])

\* two bookmarks have the label, and getByLabel has returned the first of them
C26_FirstReturned ==
  /\ Finished(Main) /\ op[Main].name = "getByLabel"
  /\ LET items == read(seen[Main]).items
         hits == SlotsOfLabel(items, op[Main].label)
     IN /\ Cardinality(hits) = 2
        /\ ret[Main] = RetBookmark(items[First(hits)])
        /\ ret[Main] # RetBookmark(items[Last(hits)])

(***************************************************************************)
(* C27.  The cwd tier is attempted only when the id tier and the fallback  *)
(* tier have both failed and the bookmark has a recorded meta.cwd; it      *)
(* succeeds exactly when some live pane's cwd is string-equal to meta.cwd, *)
(* and then returns the first such pane in the order of the listing as a   *)
(* full target {sessionId, windowId, paneId}, whatever the bookmark's      *)
(* kind.  The tier, for a reading IsSet of "has a recorded meta.cwd":      *)
(***************************************************************************)
CwdPanes(b) == {p \in panes : p.cwd = b.meta.cwd[1]}
FirstPane(P) == CHOOSE p \in P : \A q \in P : paneOrder(p) <= paneOrder(q)
EarlierTiersFailed(b) == ~IdLive(b) /\ ~FallbackMatch(b, NonEmpty)

CwdTier(IsSet(_)) ==
  Done =>
    LET attempted == \E j \in 1 .. Len(queried) : queried[j] = "listPanes"
        due == EarlierTiersFailed(bm) /\ IsSet(bm.meta.cwd)
    IN /\ attempted = due
       /\ (MethodOf(result) = "cwd") = (due /\ CwdPanes(bm) # {})
       /\ MethodOf(result) = "cwd" =>
            LET p == FirstPane(CwdPanes(bm))
            IN result.target = [sessionId |-> Def(p.sessionId),
                                windowId |-> Def(p.windowId),
                                paneId |-> Def(p.paneId)]

\* as stated: recorded means stored
C27_CwdTier == CwdTier(Present)

(***************************************************************************)
(* C27, amended.  The same with "recorded" read as "stored and not the     *)
(* empty string": the code tests meta.cwd for truthiness.                  *)
(***************************************************************************)
C27_CwdTierNonEmpty == CwdTier(NonEmpty)

\* a window bookmark resolved by cwd to the first of two panes in its directory
C27_Witness ==
  /\ Done
  /\ bm.kind = "window"
  /\ MethodOf(result) = "cwd"
  /\ Cardinality(CwdPanes(bm)) = 2
  /\ result.target.paneId # Undefined

(***************************************************************************)
(* C28: resolution failure is a value.                                     *)
(***************************************************************************)
\* no tier has anything to match on the server as it is
NoTierMatches(b) ==
  ~IdLive(b) /\ ~FallbackMatch(b, NonEmpty) /\ ~CwdMatch(b, NonEmpty)

\* the result is the failure value: resolved is false, the reason is a
\* non-empty string, and there is neither a target nor a method
FailureValue(r) ==
  /\ DOMAIN r = {"resolved", "reason"}
  /\ r.resolved = FALSE
  /\ r.reason # ""

LookupQueries ==
  {"findSessionById", "findWindowById", "findPaneById",
   "findSessionByName", "findWindowByName", "findWindowByIndex", "listPanes"}

\* a step in which resolveBookmark runs
Resolving == result = NoResult /\ result' # NoResult

\* C29: resolveBookmark is read-only: whatever its outcome, the bookmarks
\* file and the store are as before, the bookmark passed in is as before,
\* the server is as before, and every adapter call made is a lookup query
C29_ReadOnly ==
  [][Resolving =>
       /\ UNCHANGED storeVars
       /\ bm' = bm
       /\ UNCHANGED tmuxVars
       /\ \A i \in 1 .. Len(queried') : queried'[i] \in LookupQueries]_vars

\* a resolution that went through all three tiers and found a pane
C29_Witness ==
  /\ Done
  /\ result.resolved
  /\ result.method = "cwd"
  /\ Len(queried) >= 3
  /\ file = Absent

(***************************************************************************)
(* cmdJump (cli/commands.ts): a slot is looked up, the bookmark resolved,  *)
(* the store told of the use, and the client switched.  Every await is a   *)
(* step; the server changes between the steps.  The picker's select path   *)
(* awaits the same calls in the same order.                                *)
(***************************************************************************)
\* cmdAdd: store.add(...) of the pane the user is in
cmdAdd(kind, paneId) ==
  /\ jump.pc = "idle"
  /\ nextId < MaxMarks
  /\ \E p \in panes : p.paneId = paneId /\ add(Main, CmdAddInput(kind, p), clock)
  /\ UNCHANGED <<tmuxVars, resolverVars, jumpVars, adapterVars, pickerVars>>

\* meta.lastUsed of the stored bookmark id, as the file has it
StoredLastUsed(id) ==
  LET items == read(file).items
      index == findIndexById(items, id)
  IN IF index = -1 THEN Undefined ELSE Def(At(items, index).meta.lastUsed)

\* await store.getBySlot(slot)
cmdJump(slot) ==
  /\ jump.pc = "idle"
  /\ getBySlot(Main, slot)
  /\ jump' = [pc |-> "lookup", path |-> "jump"]
  /\ before' = NoSnapshot
  /\ UNCHANGED <<adapterVars, pickerVars, tmuxVars, resolverVars, view, switched>>

\* cmdPick, action "last": if (!state.prevViewedId) return;
\* await store.get(state.prevViewedId)
pickLast ==
  /\ jump.pc = "idle"
  /\ view.prevViewedId # Undefined
  /\ get(Main, view.prevViewedId[1])
  /\ jump' = [pc |-> "lookup", path |-> "last"]
  /\ before' = NoSnapshot
  /\ UNCHANGED <<adapterVars, pickerVars, tmuxVars, resolverVars, view, switched>>

\* if (!bookmark) exit(1); await resolveBookmark(bookmark, adapter);
\* if (!resolution.resolved) exit(1)
JumpResolve ==
  /\ jump.pc = "lookup"
  /\ pc[Main] = "done"
  /\ Return(Main)
  /\ IF ret[Main].t # "bookmark"
       THEN /\ jump' = [pc |-> "exit", path |-> jump.path]
            /\ before' = before
       ELSE LET bookmark == ret[Main].v
                resolution == resolveBookmark(bookmark).result
            IN /\ jump' = [pc |-> IF resolution.resolved THEN "touch" ELSE "exit",
                           path |-> jump.path,
                           bookmark |-> bookmark, resolution |-> resolution]
               /\ before' = [taken |-> TRUE, lastUsed |-> StoredLastUsed(bookmark.id),
                             view |-> view]
  /\ UNCHANGED <<adapterVars, pickerVars, tmuxVars, resolverVars, view, switched>>

\* await store.touch(bookmark.id): the call begins
JumpTouch ==
  /\ jump.pc = "touch"
  /\ touch(Main, jump.bookmark.id)
  /\ jump' = [jump EXCEPT !.pc = "touching"]
  /\ UNCHANGED <<adapterVars, pickerVars, tmuxVars, resolverVars, view, switched, before>>

\* mutant: the view state is written whatever was viewed last
setStateAlways(state, id) ==
  [lastViewedId |-> Def(id), prevViewedId |-> state.lastViewedId]

\* the view state after "jump to previous" has gone to id
setStateLast(state, id) ==
  [lastViewedId |-> Def(id), prevViewedId |-> state.lastViewedId]

\* the view state after a jump to id, from the state that was read
setState(state, id) ==
  IF state.lastViewedId # Def(id)
    THEN [lastViewedId |-> Def(id), prevViewedId |-> state.lastViewedId]
    ELSE state

\* the touch has returned; state = await store.getState(), and
\* await store.setState(...) when the bookmark is not the last one viewed
JumpSetState ==
  /\ jump.pc = "touching"
  /\ pc[Main] = "done"
  /\ Return(Main)
  /\ view' = IF jump.path = "last"
               THEN setStateLast(view, jump.bookmark.id)
               ELSE setState(view, jump.bookmark.id)
  /\ jump' = [jump EXCEPT !.pc = "switch"]
  /\ UNCHANGED <<adapterVars, pickerVars, tmuxVars, resolverVars, switched, before>>

\* switchToInsideTmux: the commands it runs for a target, in order
SwitchCommands(target) ==
  (IF target.sessionId # Undefined
     THEN <<[cmd |-> "switch-client", t |-> target.sessionId[1]]>> ELSE <<>>)
  \o (IF target.windowId # Undefined
        THEN <<[cmd |-> "select-window", t |-> target.windowId[1]]>> ELSE <<>>)
  \o (IF target.paneId # Undefined
        THEN <<[cmd |-> "select-pane", t |-> target.paneId[1]]>> ELSE <<>>)

\* tmux runs the command: its target is alive
Runs(c) ==
  CASE c.cmd = "switch-client" -> \E e \in sessions : e.sessionId = c.t
    [] c.cmd = "select-window" -> \E e \in windows : e.windowId = c.t
    [] c.cmd = "select-pane" -> \E e \in panes : e.paneId = c.t

\* the commands that ran before the first one that failed
Ran(cmds) ==
  LET n == CHOOSE k \in 0 .. Len(cmds) :
             /\ \A i \in 1 .. k : Runs(cmds[i])
             /\ (k < Len(cmds) => ~Runs(cmds[k + 1]))
  IN SubSeq(cmds, 1, n)

\* try { await adapter.switchTo(resolution.target) } catch (TmuxError) { exit(1) }
JumpSwitch ==
  /\ jump.pc = "switch"
  /\ LET cmds == SwitchCommands(jump.resolution.target)
     IN /\ switched' = Ran(cmds)
        /\ jump' = [jump EXCEPT !.pc = IF Ran(cmds) = cmds THEN "done" ELSE "exit"]
  /\ UNCHANGED <<adapterVars, pickerVars, storeVars, tmuxVars, resolverVars, view, before>>

\* the command has ended: it returned, or the process exited with 1
JumpEnd ==
  /\ jump.pc \in {"done", "exit"}
  /\ jump' = NoJump
  /\ UNCHANGED <<adapterVars, pickerVars, storeVars, tmuxVars, resolverVars, view, switched, before>>

(***************************************************************************)
(* SpecJump: bookmarks are added and jumped to while sessions and windows  *)
(* are created and killed and the clock advances.                          *)
(***************************************************************************)
\* the kinds of the bookmarks that are jumped to
JumpKinds == {"session", "window"}

NextJump ==
  \/ \E kind \in JumpKinds, pid \in WindowIds : cmdAdd(kind, pid)
  \/ WriteBegin(Main) /\ UNCHANGED <<tmuxVars, resolverVars, jumpVars, adapterVars, pickerVars>>
  \/ WriteEnd(Main) /\ UNCHANGED <<tmuxVars, resolverVars, jumpVars, adapterVars, pickerVars>>
  \/ Rename(Main) /\ UNCHANGED <<tmuxVars, resolverVars, jumpVars, adapterVars, pickerVars>>
  \/ (jump.pc = "idle" /\ Return(Main)) /\ UNCHANGED <<tmuxVars, resolverVars, jumpVars, adapterVars, pickerVars>>
  \/ Tick /\ UNCHANGED <<tmuxVars, resolverVars, jumpVars, adapterVars, pickerVars>>
  \/ \E name \in Range(SessionNames) : createSession(name) /\ UNCHANGED <<storeVars, jumpVars, adapterVars, pickerVars>>
  \/ \E sid \in SessionIds : killSession(sid) /\ UNCHANGED <<storeVars, jumpVars, adapterVars, pickerVars>>
  \/ \E slot \in Slots : cmdJump(slot)
  \/ pickLast
  \/ JumpResolve
  \/ JumpTouch
  \/ JumpSetState
  \/ JumpSwitch
  \/ JumpEnd

SpecJump == Init /\ [][NextJump]_vars

(***************************************************************************)
(* C30: the usage metadata and the switch.                                 *)
(***************************************************************************)
\* a jump has its bookmark and has taken the snapshot of what was stored
JumpUnderWay == "bookmark" \in DOMAIN jump

\* meta.lastUsed of the bookmark and the view state are as the jump found them
MetadataUnchanged ==
  /\ StoredLastUsed(jump.bookmark.id) = before.lastUsed
  /\ view = before.view

\* C30: in a jump the usage metadata (meta.lastUsed by touch, and
\* lastViewedId / prevViewedId) is written only after switchTo has
\* succeeded; as long as it has not, and when the resolution or the switch
\* has failed, lastUsed and the view state are unchanged
C30_MetadataAfterSwitch ==
  (JumpUnderWay /\ jump.pc # "done") => MetadataUnchanged

\* the switch has failed after the bookmark was resolved, and both lastUsed
\* and the view state have been written
C30_WrittenThenFailed ==
  /\ JumpUnderWay
  /\ jump.pc = "exit"
  /\ jump.resolution.resolved
  /\ switched # SwitchCommands(jump.resolution.target)
  /\ StoredLastUsed(jump.bookmark.id) # before.lastUsed
  /\ view # before.view

(***************************************************************************)
(* TmuxAdapter.getState: Promise.all of listSessions, listWindows and      *)
(* listPanes.  Each is a tmux command of its own; the three run side by    *)
(* side and the server serves them one by one, in any order, among the     *)
(* commands of other clients.                                              *)
(***************************************************************************)
\* getState is called: the three commands are spawned
getState ==
  /\ snap.pc = "idle"
  /\ snap' = [pc |-> "running", sessions |-> Undefined, windows |-> Undefined,
              panes |-> Undefined]
  /\ UNCHANGED <<storeVars, tmuxVars, resolverVars, jumpVars, rs, cands, pickerVars>>

\* mutant: one command tells all three lists
ListAnsweredAtOnce(which) ==
  /\ snap.pc = "running"
  /\ snap[which] = Undefined
  /\ snap' = [snap EXCEPT !.sessions = Def({h[2] : h \in listSessions}),
                          !.windows = Def({h[2] : h \in listWindows}),
                          !.panes = Def({h[2] : h \in listPanes})]
  /\ UNCHANGED <<storeVars, tmuxVars, resolverVars, jumpVars, rs, cands, pickerVars>>

\* the server answers list-sessions / list-windows -a / list-panes -a
ListAnswered(which) ==
  /\ snap.pc = "running"
  /\ snap[which] = Undefined
  /\ snap' = [snap EXCEPT ![which] =
                Def(CASE which = "sessions" -> {h[2] : h \in listSessions}
                      [] which = "windows" -> {h[2] : h \in listWindows}
                      [] which = "panes" -> {h[2] : h \in listPanes})]
  /\ UNCHANGED <<storeVars, tmuxVars, resolverVars, jumpVars, rs, cands, pickerVars>>

\* all three have answered: return { sessions, windows, panes }
getStateReturn ==
  /\ snap.pc = "running"
  /\ snap.sessions # Undefined /\ snap.windows # Undefined /\ snap.panes # Undefined
  /\ snap' = [pc |-> "returned", sessions |-> snap.sessions[1],
              windows |-> snap.windows[1], panes |-> snap.panes[1]]
  /\ UNCHANGED <<storeVars, tmuxVars, resolverVars, jumpVars, rs, cands, pickerVars>>

\* the caller is done with the state
getStateDone ==
  /\ snap.pc = "returned"
  /\ snap' = NoSnap
  /\ UNCHANGED <<storeVars, tmuxVars, resolverVars, jumpVars, rs, cands, pickerVars>>

(***************************************************************************)
(* SpecSnapshot: getState runs while other clients create and kill         *)
(* sessions and windows.                                                   *)
(***************************************************************************)
NextSnapshot ==
  \/ \E name \in Range(SessionNames) :
       createSession(name) /\ UNCHANGED <<storeVars, jumpVars, adapterVars, pickerVars>>
  \/ \E sid \in SessionIds, name \in WindowNames :
       createWindow(sid, name) /\ UNCHANGED <<storeVars, jumpVars, adapterVars, pickerVars>>
  \/ \E sid \in SessionIds : killSession(sid) /\ UNCHANGED <<storeVars, jumpVars, adapterVars, pickerVars>>
  \/ \E wid \in WindowIds : killWindow(wid) /\ UNCHANGED <<storeVars, jumpVars, adapterVars, pickerVars>>
  \/ getState
  \/ \E which \in {"sessions", "windows", "panes"} : ListAnswered(which)
  \/ getStateReturn
  \/ getStateDone

SpecSnapshot == Init /\ [][NextSnapshot]_vars

\* C31: every state returned by getState is referentially consistent, also
\* when sessions, windows or panes are created or killed while it runs: each
\* window's sessionId is the id of a returned session, and each pane's
\* windowId is the id of a returned window
C31_SnapshotConsistent ==
  snap.pc = "returned" =>
    /\ \A w \in snap.windows : \E e \in snap.sessions : e.sessionId = w.sessionId
    /\ \A q \in snap.panes : \E w \in snap.windows : w.windowId = q.windowId

\* a returned state that names a window of a session it does not list
C31_Torn ==
  /\ snap.pc = "returned"
  /\ \E w \in snap.windows : \A e \in snap.sessions : e.sessionId # w.sessionId

(***************************************************************************)
(* C32: the temporary files of writes that are in flight together.         *)
(***************************************************************************)
\* the call of p is inside write(): its temporary file is being written or
\* waits to be renamed
Writing(p) == pc[p] \in {"write", "writing", "rename"}

\* C32: any two write calls in flight at the same time, of different
\* processes or of the same process, use different temporary file paths, so
\* that no write's temporary file is overwritten or renamed away by another
C32_TempPathsDiffer ==
  \A p \in Callers, q \in Callers :
    (p # q /\ Writing(p) /\ Writing(q)) =>
      /\ TempPath(p) # TempPath(q)
      /\ (pc[p] = "rename" => tmp[TempPath(p)].exists)

\* two writes of one process are about to rename, and the temporary file
\* they share holds what one of them wrote
C32_SharedTemp ==
  /\ pc[Main] = "rename"
  /\ pc[Sibling] = "rename"
  /\ TempPath(Main) = TempPath(Sibling)
  /\ tmp[TempPath(Main)].exists

(***************************************************************************)
(* C33: what the id tier needs.                                            *)
(***************************************************************************)
\* the identifiers a target of a kind has: its own and those of its parents
RequiredIds(kind) ==
  CASE kind = "session" -> {"sessionId"}
    [] kind = "window" -> {"sessionId", "windowId"}
    [] kind = "pane" -> {"sessionId", "windowId", "paneId"}

\* the identifier k of the bookmark is stored and an entity with it is alive
StoredAndLive(b, k) ==
  /\ b.target[k] # Undefined
  /\ CASE k = "sessionId" -> \E e \in sessions : e.sessionId = b.target[k][1]
       [] k = "windowId" -> \E e \in windows : e.windowId = b.target[k][1]
       [] k = "paneId" -> \E e \in panes : e.paneId = b.target[k][1]

\* the fallback tier was entered: with a session name to go by, it asked for it
FallbackEntered ==
  Truthy(bm.fallback.sessionName) =>
    \E i \in 1 .. Len(queried) : queried[i] = "findSessionByName"

\* C33 (as stated): the id tier succeeds only if every identifier required
\* by the bookmark's kind is present in bookmark.target and found live; if
\* any of them is missing or not live the id tier fails and the resolution
\* proceeds to the fallback tier
C33_EveryIdRequired ==
  Done =>
    /\ MethodOf(result) = "id" =>
         \A k \in RequiredIds(bm.kind) : StoredAndLive(bm, k)
    /\ (\E k \in RequiredIds(bm.kind) : ~StoredAndLive(bm, k)) =>
         (MethodOf(result) # "id" /\ FallbackEntered)

\* C33 (amended): the id tier succeeds exactly when the identifier of the
\* bookmark's own kind is present in bookmark.target and found live; when it
\* is missing or not live the id tier fails and the resolution proceeds to
\* the fallback tier; the identifiers of the parents are not asked for
C33_OwnIdRequired ==
  Done =>
    /\ MethodOf(result) = "id" <=> StoredAndLive(bm, IdKey(bm.kind))
    /\ ~StoredAndLive(bm, IdKey(bm.kind)) => FallbackEntered

\* a window bookmark whose session is alive and whose window is dead: the id
\* tier has failed and the fallback tier has found the session by its name
C33_Witness ==
  /\ Done
  /\ bm.kind = "window"
  /\ StoredAndLive(bm, "sessionId")
  /\ bm.target.windowId # Undefined
  /\ ~StoredAndLive(bm, "windowId")
  /\ MethodOf(result) # "id"
  /\ queried[1] = "findWindowById"
  /\ queried[2] = "findSessionByName"

(***************************************************************************)
(* C34: the window of the fallback tier.                                   *)
(***************************************************************************)
\* the fallback tier decides: the id tier has failed, the bookmark is of a
\* window or a pane, and a session has the stored session name
FallbackDecides(IsSet(_)) ==
  /\ Done
  /\ ~IdLive(bm)
  /\ bm.kind # "session"
  /\ Named(bm, IsSet) # {}

\* the result is a fallback match of a window out of ws, in session s
FallbackWindow(s, ws) ==
  /\ MethodOf(result) = "fallback"
  /\ result.target.sessionId = Def(s.sessionId)
  /\ \E w \in ws : result.target.windowId = Def(w.windowId)

\* name first, then index, among the windows of the session with the name
NameThenIndex(IsSet(_)) ==
  FallbackDecides(IsSet) =>
    \A s \in Named(bm, IsSet) :
      /\ NamedWindows(bm, s, IsSet) # {} =>
           FallbackWindow(s, NamedWindows(bm, s, IsSet))
      /\ (NamedWindows(bm, s, IsSet) = {} /\ IndexedWindows(bm, s) # {}) =>
           FallbackWindow(s, IndexedWindows(bm, s))

\* C34 (as stated): in the fallback tier the window is searched only among
\* the windows of the session found by fallback.sessionName, first by
\* fallback.windowName and, only if that finds no window, by
\* fallback.windowIndex: a name match is returned over an index match, and
\* the window at the index when the name matches nothing
C34_NameThenIndex == NameThenIndex(Present)

\* C34 (amended): the same, for a fallback.windowName that is not the empty
\* string; an empty window name is not searched for, and the window index
\* is used instead
C34_NameThenIndexNonEmpty ==
  /\ NameThenIndex(NonEmpty)
  /\ (FallbackDecides(NonEmpty) /\ bm.fallback.windowName = Def("")) =>
       \A s \in Named(bm, NonEmpty) :
         IndexedWindows(bm, s) # {} => FallbackWindow(s, IndexedWindows(bm, s))

\* the stored name matches one window of the session and the stored index
\* another one: the name match is returned
C34_Witness ==
  /\ FallbackDecides(NonEmpty)
  /\ \E s \in Named(bm, NonEmpty) :
       /\ NamedWindows(bm, s, NonEmpty) # {}
       /\ IndexedWindows(bm, s) # {}
       /\ NamedWindows(bm, s, NonEmpty) \cap IndexedWindows(bm, s) = {}
       /\ FallbackWindow(s, NamedWindows(bm, s, NonEmpty))

(***************************************************************************)
(* C35: a pane bookmark in the fallback tier.                              *)
(***************************************************************************)
\* the adapter calls that look for a pane by other means than its id
PaneSearches == {"listPanes", "findPaneByIndex"}

\* a pane bookmark whose pane is gone and whose fallbacks match resolves to
\* the window, and no pane was looked for on the way
PaneDegrades(IsSet(_)) ==
  (Done /\ bm.kind = "pane" /\ ~IdLive(bm) /\ FallbackMatch(bm, IsSet)) =>
    /\ MethodOf(result) = "fallback"
    /\ result.target.sessionId # Undefined
    /\ result.target.windowId # Undefined
    /\ result.target.paneId = Undefined
    /\ \A i \in 1 .. Len(queried) : queried[i] \notin PaneSearches

\* C35 (as stated): for a pane bookmark whose pane id is not live the
\* fallback tier never looks for a pane: when the session and window
\* fallbacks match, the result is method "fallback" with a window-level
\* target {sessionId, windowId} and no paneId
C35_PaneDegrades == PaneDegrades(Present)

\* C35 (amended): the same, where a fallback name matches only if it is not
\* the empty string
C35_PaneDegradesNonEmpty ==
  /\ PaneDegrades(NonEmpty)
  /\ (Done /\ bm.kind = "pane" /\ MethodOf(result) = "fallback") =>
       result.target.paneId = Undefined

\* the pane of a pane bookmark is gone while another pane of the same
\* session is alive, and the bookmark has resolved to a window
C35_Witness ==
  /\ Done
  /\ bm.kind = "pane"
  /\ bm.target.paneId # Undefined
  /\ ~IdLive(bm)
  /\ MethodOf(result) = "fallback"
  /\ result.target.paneId = Undefined
  /\ \E q \in panes : Def(q.windowId) = result.target.windowId

(***************************************************************************)
(* C36: the fallback tier fails as a whole.                                *)
(***************************************************************************)
\* the sessions that have the stored session name, whatever the name is
SessionsByName(b) == Named(b, Present)

\* C36: the fallback tier fails whenever a prerequisite is missing: with no
\* fallback.sessionName or no live session of that name for every kind; for
\* a window or pane bookmark also when the session matches but neither
\* windowName nor windowIndex matches a window of that session; it never
\* returns a session-only target for a window or pane bookmark
C36_FallbackFailsWhole ==
  Done =>
    /\ SessionsByName(bm) = {} => MethodOf(result) # "fallback"
    /\ (/\ bm.kind # "session"
        /\ \A s \in SessionsByName(bm) :
             NamedWindows(bm, s, Present) = {} /\ IndexedWindows(bm, s) = {})
         => MethodOf(result) # "fallback"
    /\ (bm.kind # "session" /\ MethodOf(result) = "fallback") =>
         (result.target.sessionId # Undefined /\ result.target.windowId # Undefined)

\* the session of a window bookmark is found by its name, its window is
\* gone and no window of the session has the stored name or index: the
\* fallback tier was tried to the end and has failed
C36_Witness ==
  /\ Done
  /\ bm.kind = "window"
  /\ ~IdLive(bm)
  /\ SessionsByName(bm) # {}
  /\ \A s \in SessionsByName(bm) :
       NamedWindows(bm, s, Present) = {} /\ IndexedWindows(bm, s) = {}
  /\ \E i \in 1 .. Len(queried) : queried[i] = "findWindowByIndex"
  /\ MethodOf(result) # "fallback"

(***************************************************************************)
(* resolveBookmark query by query.  Every adapter lookup is a tmux command *)
(* of its own (list-sessions, list-windows -a, list-panes -a); between two *)
(* of them other clients change the server.                                *)
(***************************************************************************)
\* the call has begun and has not returned
InFlight == rs.pc \notin {"idle", "done"}

\* a command of another client has been served: the server state it made is
\* one the call in flight has lived through
Observed ==
  /\ cands' = IF InFlight THEN cands \cup {(resolveBookmark(bm).result)'} ELSE cands
  /\ rs' = rs
  /\ UNCHANGED <<pickerVars, snap, storeVars, jumpVars>>

\* resolveBookmark(bookmark, adapter) is called
resolveBegin ==
  /\ rs.pc = "idle"
  /\ bm # NoBookmark
  /\ rs' = [pc |-> "id"]
  /\ cands' = {resolveBookmark(bm).result}
  /\ UNCHANGED <<pickerVars, snap, storeVars, tmuxVars, resolverVars, jumpVars>>

\* the call returns r
Returns(r) == rs' = [pc |-> "done", result |-> r]

\* await tryResolveById(bookmark, adapter)
StepById ==
  /\ rs.pc = "id"
  /\ LET idResult == tryResolveById(bm).ret
     IN IF idResult # Null
          THEN Returns(Resolved("id", idResult[1]))
          ELSE rs' = [pc |-> "session"]
  /\ UNCHANGED <<pickerVars, snap, cands, storeVars, tmuxVars, resolverVars, jumpVars>>

\* tryResolveByFallback: await adapter.findSessionByName(fallback.sessionName)
StepBySessionName ==
  /\ rs.pc = "session"
  /\ LET session == IF Truthy(bm.fallback.sessionName)
                      THEN findSessionByName(bm.fallback.sessionName[1]) ELSE Null
     IN IF session = Null
          THEN rs' = [pc |-> "cwd"]
        ELSE IF bm.kind = "session"
          THEN Returns(Resolved("fallback",
                         [NoTarget EXCEPT !.sessionId = Def(session[1].sessionId)]))
        ELSE rs' = [pc |-> "name", session |-> session[1]]
  /\ UNCHANGED <<pickerVars, snap, cands, storeVars, tmuxVars, resolverVars, jumpVars>>

\* the target the fallback tier returns for a window of the session it holds
SessionAndWindow(window) ==
  [NoTarget EXCEPT !.sessionId = Def(rs.session.sessionId),
                   !.windowId = Def(window.windowId)]

\* await adapter.findWindowByName(session.sessionId, fallback.windowName)
StepByWindowName ==
  /\ rs.pc = "name"
  /\ LET window == IF Truthy(bm.fallback.windowName)
                     THEN findWindowByName(rs.session.sessionId, bm.fallback.windowName[1])
                     ELSE Null
     IN IF window # Null
          THEN Returns(Resolved("fallback", SessionAndWindow(window[1])))
          ELSE rs' = [rs EXCEPT !.pc = "index"]
  /\ UNCHANGED <<pickerVars, snap, cands, storeVars, tmuxVars, resolverVars, jumpVars>>

\* await adapter.findWindowByIndex(session.sessionId, fallback.windowIndex)
StepByWindowIndex ==
  /\ rs.pc = "index"
  /\ LET window == IF bm.fallback.windowIndex # Undefined
                     THEN findWindowByIndex(rs.session.sessionId, bm.fallback.windowIndex[1])
                     ELSE Null
     IN IF window # Null
          THEN Returns(Resolved("fallback", SessionAndWindow(window[1])))
          ELSE rs' = [pc |-> "cwd"]
  /\ UNCHANGED <<pickerVars, snap, cands, storeVars, tmuxVars, resolverVars, jumpVars>>

\* if (bookmark.meta.cwd) await tryResolveByCwd(...); else the failure value
StepByCwd ==
  /\ rs.pc = "cwd"
  /\ LET cwdResult == IF Truthy(bm.meta.cwd) THEN tryResolveByCwd(bm.meta.cwd[1]).ret
                      ELSE Null
     IN IF cwdResult # Null
          THEN Returns(Resolved("cwd", cwdResult[1]))
          ELSE Returns(Unresolved)
  /\ UNCHANGED <<pickerVars, snap, cands, storeVars, tmuxVars, resolverVars, jumpVars>>

\* the caller is done with the result
resolveEnd ==
  /\ rs.pc = "done"
  /\ rs' = NoCall
  /\ UNCHANGED <<pickerVars, snap, cands, storeVars, tmuxVars, resolverVars, jumpVars>>

\* cmdAdd of a pane, before the call
addBookmarkOf(kind, paneId) ==
  /\ rs.pc = "idle"
  /\ addBookmark(kind, paneId, {})
  /\ UNCHANGED <<storeVars, jumpVars, adapterVars, pickerVars>>

(***************************************************************************)
(* SpecRace: a bookmark is resolved query by query while other clients     *)
(* create, rename and kill sessions and windows.                           *)
(***************************************************************************)
NextRace ==
  \/ \E kind \in Kinds, pid \in WindowIds : addBookmarkOf(kind, pid)
  \/ \E name \in Range(SessionNames) : createSession(name) /\ Observed
  \/ \E sid \in SessionIds, name \in WindowNames : createWindow(sid, name) /\ Observed
  \/ \E sid \in SessionIds, name \in Range(SessionNames) :
       renameSession(sid, name) /\ Observed
  \/ \E wid \in WindowIds, name \in WindowNames : renameWindow(wid, name) /\ Observed
  \/ \E sid \in SessionIds : killSession(sid) /\ Observed
  \/ \E wid \in WindowIds : killWindow(wid) /\ Observed
  \/ resolveBegin
  \/ StepById
  \/ StepBySessionName
  \/ StepByWindowName
  \/ StepByWindowIndex
  \/ StepByCwd
  \/ resolveEnd

SpecRace == Init /\ [][NextRace]_vars

\* C37: every result of resolveBookmark equals what the three-tier algorithm
\* yields on a single point-in-time snapshot of the hierarchy that existed
\* during the call, even when sessions and windows are renamed, created or
\* killed between the lookup queries; a resolved target never pairs a
\* session matched in one state with a window matched in another
C37_SnapshotResult ==
  rs.pc = "done" => rs.result \in cands

\* a fallback result whose session and window no state of the server during
\* the call would have given
C37_Mixed ==
  /\ rs.pc = "done"
  /\ rs.result \notin cands
  /\ rs.result.resolved
  /\ rs.result.method = "fallback"
  /\ rs.result.target.windowId # Undefined

(***************************************************************************)
(* C38: the two times of a bookmark.                                       *)
(***************************************************************************)
\* C38: for every bookmark in the store, in every reachable state,
\* meta.createdAt <= meta.lastUsed, the clock never going backwards (add
\* and replace set both, touch only raises lastUsed)
C38_CreatedBeforeUsed ==
  \A i \in 1 .. Len(ItemsOf(file)) :
    ItemsOf(file)[i].meta.createdAt <= ItemsOf(file)[i].meta.lastUsed

\* a replace has returned a bookmark that the file holds with a createdAt
\* later than its lastUsed
C38_CreatedLater ==
  /\ Finished(Main) /\ op[Main].name = "replace"
  /\ ret[Main].t = "bookmark"
  /\ \E i \in 1 .. Len(ItemsOf(file)) :
       /\ ItemsOf(file)[i].id = ret[Main].v.id
       /\ ItemsOf(file)[i].meta.createdAt > ItemsOf(file)[i].meta.lastUsed

(***************************************************************************)
(* C39: the view state.                                                    *)
(***************************************************************************)
\* the jump has written, or left, the view state
StateSet == JumpUnderWay /\ jump.pc \in {"switch", "done"}

\* C39: after any sequence of jumps and "jump to previous" actions by one
\* process lastViewedId and prevViewedId are never equal when both are set:
\* a jump to bookmark b with lastViewedId other than b sets lastViewedId to b
\* and prevViewedId to the old lastViewedId, a jump to the bookmark that is
\* lastViewedId leaves both unchanged, and "jump to previous" swaps the two
C39_ViewDistinct ==
  /\ (view.lastViewedId # Undefined /\ view.prevViewedId # Undefined) =>
       view.lastViewedId # view.prevViewedId
  /\ (StateSet /\ jump.path = "jump") =>
       IF before.view.lastViewedId # Def(jump.bookmark.id)
         THEN view = [lastViewedId |-> Def(jump.bookmark.id),
                      prevViewedId |-> before.view.lastViewedId]
         ELSE view = before.view
  /\ (StateSet /\ jump.path = "last") =>
       view = [lastViewedId |-> before.view.prevViewedId,
               prevViewedId |-> before.view.lastViewedId]

\* "jump to previous" has swapped the two ids after two jumps
C39_Witness ==
  /\ StateSet
  /\ jump.path = "last"
  /\ jump.pc = "done"
  /\ view.lastViewedId # Undefined
  /\ view.prevViewedId # Undefined
  /\ view.lastViewedId = before.view.prevViewedId

(***************************************************************************)
(* The interactive picker: runPicker reads one key at a time and acts on   *)
(* it until a key ends the loop.  Strings are sequences of one-character   *)
(* strings; arrays are sequences read at index + 1.                        *)
(***************************************************************************)

\* the longest filter text typed
MaxFilter == 2
\* the most bookmarks handed to the picker
MaxItems == 2

\* The keys readKey delivers: the ones the switch names, and two that it
\* does not ("a" and "A").
Keys ==
  {"/", "j", "Down", "k", "Up", "g", "G", "Enter", "1", "2", "Tab", "d",
   "Backspace", "q", "Esc", "a", "A"}

\* The keys of length one from " " to "~".  Backspace (\x7f), Escape,
\* Enter and Tab are control characters, the arrows are three characters.
VisibleKeys == {"/", "j", "k", "g", "G", "1", "2", "d", "q", "a", "A"}

\* the window lists a caller may pass as options.windowItems
WindowLists ==
  { Undefined,
    Def(<<>>),
    Def(<<[label |-> <<"a">>, target |-> 1]>>),
    Def(<<[label |-> <<"A", "j">>, target |-> 1],
          [label |-> <<"g">>, target |-> 2]>>) }

NoPick == [action |-> "null"]

runPicker(bookmarks, lastAvailable, onDelete, initialWindowItems) ==
  /\ pk.pc = "idle"
  /\ pk' = [pc |-> "loop",
            key |-> "",
            items |-> bookmarks,
            lastAvailable |-> lastAvailable,
            onDelete |-> onDelete,
            hasWindows |-> (initialWindowItems # Undefined
                            /\ Len(initialWindowItems[1]) > 0),
            selectedIndex |-> 0,
            running |-> TRUE,
            result |-> NoPick,
            windowMode |-> FALSE,
            filterText |-> <<>>,
            baseWindowItems |-> initialWindowItems,
            windowItems |-> initialWindowItems]
  /\ UNCHANGED <<storeVars, tmuxVars, resolverVars, jumpVars, adapterVars>>

applyWindowFilter(p, nextFilter) ==
  LET toLowerCase(str) ==
        [i \in 1 .. Len(str) |->
           IF str[i] = "A" THEN "a" ELSE IF str[i] = "G" THEN "g" ELSE str[i]]
      includes(str, sub) ==
        \E i \in 0 .. Len(str) - Len(sub) :
          SubSeq(str, i + 1, i + Len(sub)) = sub
      filtered ==
        IF p.baseWindowItems = Undefined
        THEN <<>>
        ELSE SelectSeq(p.baseWindowItems[1],
                       LAMBDA item :
                         includes(toLowerCase(item.label), toLowerCase(nextFilter)))
  IN  [p EXCEPT !.filterText = nextFilter,
                !.windowItems = Def(filtered),
                !.selectedIndex = 0]

\* what q, Escape and Ctrl+C do in window mode
leaveWindowMode(p) ==
  [p EXCEPT !.windowMode = FALSE,
            !.filterText = <<>>,
            !.windowItems = p.baseWindowItems,
            !.selectedIndex = 0]

\* the switch of the loop: the picker after the case of this key has run;
\* deleted is what the onDelete callback answers
switch(p, key, deleted) ==
  LET nItems == Len(p.items)
      nWindows == IF p.windowItems = Undefined THEN 0 ELSE Len(p.windowItems[1])
      max(a, b) == IF a > b THEN a ELSE b
  IN
  CASE key = "/" ->
         IF p.hasWindows
         THEN applyWindowFilter([p EXCEPT !.windowMode = TRUE, !.selectedIndex = 0], <<>>)
         ELSE p
    [] key \in {"j", "Down"} ->
         IF ~p.windowMode /\ nItems > 0
         THEN [p EXCEPT !.selectedIndex = (p.selectedIndex + 1) % nItems]
         ELSE IF p.windowMode /\ key = "Down" /\ nWindows > 0
         THEN [p EXCEPT !.selectedIndex = (p.selectedIndex + 1) % nWindows]
         ELSE p
    [] key \in {"k", "Up"} ->
         IF ~p.windowMode /\ nItems > 0
         THEN [p EXCEPT !.selectedIndex = (p.selectedIndex - 1 + nItems) % nItems]
         ELSE IF p.windowMode /\ key = "Up" /\ nWindows > 0
         THEN [p EXCEPT !.selectedIndex = (p.selectedIndex - 1 + nWindows) % nWindows]
         ELSE p
    [] key = "g" ->
         IF ~p.windowMode THEN [p EXCEPT !.selectedIndex = 0] ELSE p
    [] key = "G" ->
         IF ~p.windowMode THEN [p EXCEPT !.selectedIndex = max(0, nItems - 1)] ELSE p
    [] key = "Enter" ->
         IF p.windowMode /\ nWindows > 0
         THEN [p EXCEPT !.result = [action |-> "window",
                                    target |-> p.windowItems[1][p.selectedIndex + 1].target],
                        !.running = FALSE]
         ELSE IF nItems > 0
         THEN [p EXCEPT !.result = [action |-> "select",
                                    bookmark |-> p.items[p.selectedIndex + 1],
                                    index |-> p.selectedIndex],
                        !.running = FALSE]
         ELSE p
    [] key \in {"1", "2"} ->
         LET num == (IF key = "1" THEN 1 ELSE 2) - 1
         IN  IF p.windowMode
             THEN p
             ELSE IF num < nItems
             THEN [p EXCEPT !.result = [action |-> "select",
                                        bookmark |-> p.items[num + 1],
                                        index |-> num],
                            !.running = FALSE]
             ELSE p
    [] key = "Tab" ->
         IF p.lastAvailable
         THEN [p EXCEPT !.result = [action |-> "last"], !.running = FALSE]
         ELSE p
    [] key = "d" ->
         IF ~p.windowMode /\ nItems > 0 /\ p.onDelete /\ deleted
         THEN LET spliced == [i \in 1 .. nItems - 1 |->
                                IF i <= p.selectedIndex THEN p.items[i] ELSE p.items[i + 1]]
              IN  [p EXCEPT !.items = spliced,
                            !.selectedIndex =
                               IF p.selectedIndex >= Len(spliced)
                               THEN max(0, Len(spliced) - 1)
                               ELSE p.selectedIndex]
         ELSE p
    [] key = "Backspace" ->
         IF p.windowMode /\ Len(p.filterText) > 0
         THEN applyWindowFilter(p, SubSeq(p.filterText, 1, Len(p.filterText) - 1))
         ELSE p
    [] key \in {"q", "Esc"} ->
         IF p.windowMode THEN leaveWindowMode(p) ELSE [p EXCEPT !.running = FALSE]
    [] OTHER -> p

\* the key is typed into the filter: the test after the switch
typed(p, key) ==
  /\ p.windowMode
  /\ key \in VisibleKeys
  /\ key \notin {"/", "q", "Tab", "Enter"}

\* One turn of the loop: readKey delivers a key, the switch runs, and in
\* window mode a printable key is added to the filter.
readKey(key) ==
  /\ pk.pc = "loop"
  /\ pk.running
  /\ \E deleted \in BOOLEAN :
       LET p == switch([pk EXCEPT !.key = key], key, deleted)
       IN  IF typed(p, key)
           THEN /\ Len(p.filterText) < MaxFilter
                /\ pk' = applyWindowFilter(p, Append(p.filterText, key))
           ELSE pk' = p
  /\ UNCHANGED <<storeVars, tmuxVars, resolverVars, jumpVars, adapterVars>>

\* the loop has ended: runPicker returns result
runPickerReturn ==
  /\ pk.pc = "loop"
  /\ ~pk.running
  /\ pk' = [pk EXCEPT !.pc = "done"]
  /\ UNCHANGED <<storeVars, tmuxVars, resolverVars, jumpVars, adapterVars>>

NextPicker ==
  \/ \E n \in 0 .. MaxItems, lastAvailable \in BOOLEAN, onDelete \in BOOLEAN,
        windowItems \in WindowLists :
        runPicker([i \in 1 .. n |-> i], lastAvailable, onDelete, windowItems)
  \/ \E key \in Keys : readKey(key)
  \/ runPickerReturn

SpecPicker == Init /\ [][NextPicker]_vars

\* a turn of the loop taken in window mode
WindowModeKey == pk.pc = "loop" /\ pk.running /\ pk.windowMode /\ pk'.pc = "loop"

\* C40: while the picker is in window mode no key press ends it with a
\* bookmark "select" result; Enter yields a "window" result for the
\* highlighted item of the filtered window list, and yields no result, the
\* picker still running, when the filtered list is empty.
C40_WindowModeNeverSelects ==
  [][WindowModeKey =>
       /\ pk'.result.action # "select"
       /\ pk'.key = "Enter" =>
            IF Len(pk.windowItems[1]) > 0
            THEN /\ ~pk'.running
                 /\ pk'.result.action = "window"
                 /\ pk'.result.target =
                      pk.windowItems[1][pk.selectedIndex + 1].target
            ELSE /\ pk'.running
                 /\ pk'.result = NoPick]_vars

\* C40: the picker has ended in window mode, its filtered window list
\* empty, with a bookmark "select" result.
C40_SelectInWindowMode ==
  /\ pk.pc = "done"
  /\ pk.windowMode
  /\ pk.windowItems = Def(<<>>)
  /\ pk.key = "Enter"
  /\ pk.result.action = "select"

====
